---- MODULE Spec2Model ----
(***************************************************************************)
(* Model of the shift compositor host.                                     *)
(*                                                                         *)
(* Part 1: the RenderingLayer state machine                                *)
(* (shift/src/rendering_layer/mod.rs): slot table, slot ownership,         *)
(* per (monitor, session) surface state, acquire-fence tasks, the          *)
(* fence-event channel, deferred releases, monitor hot-plug and the run    *)
(* loop (frame iteration followed by the select loop).                     *)
(*                                                                         *)
(* Part 2: the wire framing of the control socket                          *)
(* (tab-protocol/src/message_frame.rs), the transition table              *)
(* (shift/src/animations/mod.rs) and the frame presenter                   *)
(* (shift/src/presenter.rs).                                               *)
(*                                                                         *)
(* The events the layer sends on event_tx are observed through the ghost   *)
(* variable lastEvents (the events emitted by the last step) and through   *)
(* the history variables acked and offlineSince.                           *)
(***************************************************************************)
EXTENDS Integers, Sequences, FiniteSets, TLC

\* ------------------------------------------------------------------------
\* Bounds and domains
\* ------------------------------------------------------------------------

\* Number of commands the control plane sends in a run.
MaxCmds == 3

\* The same for the runs on one monitor and one session (SpecDeep).
MaxCmdsDeep == 4

\* The same for the longest runs on one monitor and one session (SpecLong).
MaxCmdsLong == 5

Monitors == {"m1", "m2"}
Sessions == {"s1", "s2"}
BufferSlot == {"Zero", "One"}
None == "none"

\* SlotKey = (monitor_id, session_id, buffer)
SlotKey(m, s, b) == <<m, s, b>>
Keys == Monitors \X Sessions \X BufferSlot
SlotOwner == {"Client", "Shift"}

\* MonitorSurfaceState::default()
DefaultSurfaceState == [current_buffer |-> None, pending_buffer |-> None]

VARIABLES
    pc,                 \* position of run(): "init", "frame", "wait", "done", "failed"
    drm_monitors,       \* monitors EasyDRM currently exposes (drm.monitors())
    known_monitors,     \* RenderingLayer.known_monitors (ids)
    monitor_state,      \* RenderingLayer.monitor_state: (m, s) -> MonitorSurfaceState
    slots,              \* RenderingLayer.slots (keys of imported textures)
    slot_ownership,     \* RenderingLayer.slot_ownership: SlotKey -> SlotOwner
    fence_tasks,        \* RenderingLayer.fence_tasks: SlotKey -> live?  (task handle)
    orphan_tasks,       \* scheduler tasks still live but no longer in fence_tasks
    fence_events,       \* the fence-event channel (FenceEvent::Signaled keys, FIFO)
    deferred_releases,  \* RenderingLayer.deferred_releases
    current_session,    \* RenderingLayer.current_session
    committed_any,      \* committed_any of the last frame iteration
    budget,             \* number of commands the control plane may still send
    owed,               \* ghost: per key, displacements not yet answered by BufferConsumed
    unmatched,          \* ghost: per (m, s), accepted SwapBuffers minus BufferConsumed events
    lastOp,             \* ghost: the step taken last
    lastEvents,         \* ghost: events sent on event_tx by the last step
    acked,              \* ghost: keys for which BufferRequestAck was ever emitted
    offlineSince,       \* ghost: monitors with MonitorOffline and no MonitorOnline since
    call,               \* a call of the wire framing or of resolve_transition: input, position, result
    active_transition,  \* FramePresenter.active_transition
    lastRender,         \* ghost: the snapshot and the outcome of the last FramePresenter::render
    render_state,       \* one MonitorRenderState, with the last ensure_surface_target call
    cursor_sync,        \* CursorSync and the hardware cursor planes, with the last sync call
    registry            \* SessionRegistry, with the last call made on it

\* the state of the rendering layer
layer_vars == <<pc, drm_monitors, known_monitors, monitor_state, slots, slot_ownership,
                fence_tasks, orphan_tasks, fence_events, deferred_releases,
                current_session, committed_any, budget, owed, unmatched, lastOp,
                lastEvents, acked, offlineSince>>

vars == <<pc, drm_monitors, known_monitors, monitor_state, slots, slot_ownership,
          fence_tasks, orphan_tasks, fence_events, deferred_releases,
          current_session, committed_any, budget, owed, unmatched, lastOp,
          lastEvents, acked, offlineSince, call, active_transition, lastRender,
          render_state, cursor_sync, registry>>

\* the state of the components checked on their own
component_vars == <<render_state, cursor_sync, registry>>

\* ------------------------------------------------------------------------
\* Helpers for HashMap / Vec
\* ------------------------------------------------------------------------

\* HashMap::insert
MapInsert(f, k, v) == [x \in (DOMAIN f) \cup {k} |-> IF x = k THEN v ELSE f[x]]

\* HashMap::retain, keeping the keys in keep
MapRetain(f, keep) == [x \in (DOMAIN f) \cap keep |-> f[x]]

\* HashMap::remove
MapRemove(f, k) == [x \in (DOMAIN f) \ {k} |-> f[x]]

\* Vec::retain
RECURSIVE SeqRetain(_, _)
SeqRetain(q, keep) ==
    IF q = <<>> THEN <<>>
    ELSE IF Head(q) \in keep THEN <<Head(q)>> \o SeqRetain(Tail(q), keep)
    ELSE SeqRetain(Tail(q), keep)

SeqSet(q) == {q[i] : i \in 1..Len(q)}

\* All orders in which a HashMap / Vec of the given elements can be iterated.
Orders(S) == {q \in [1..Cardinality(S) -> S] : SeqSet(q) = S}

EmptyMap == [x \in {} |-> None]

\* ------------------------------------------------------------------------
\* Events (RenderEvt)
\* ------------------------------------------------------------------------

Evt(type, m, s, b, reason, mons) ==
    [type |-> type, m |-> m, s |-> s, b |-> b, reason |-> reason, mons |-> mons]

Started(mons) == Evt("Started", None, None, None, None, mons)
MonitorOnline(m) == Evt("MonitorOnline", m, None, None, None, {})
MonitorOffline(m) == Evt("MonitorOffline", m, None, None, None, {})
PageFlip(mons) == Evt("PageFlip", None, None, None, None, mons)
BufferRequestAck(k) == Evt("BufferRequestAck", k[1], k[2], k[3], None, {})
BufferRequestRejected(k, reason) == Evt("BufferRequestRejected", k[1], k[2], k[3], reason, {})
\* reason carries the release fence: "fence" (a duplicate fd) or "none"
BufferConsumed(k, fence) == Evt("BufferConsumed", k[1], k[2], k[3], fence, {})

\* the events of a sequence that reference monitor m
RefersTo(e, m) == e.m = m \/ m \in e.mons

\* a step: its kind, the key and acquire fence of its command or fence event,
\* its outcome; removed: the fence event handled was queued before its session
\* was removed; imported: the buffers a FramebufferLink imported successfully;
\* textures: the slots whose texture a frame iteration drew
Op(kind, m, s, b, fence, res) ==
    [kind |-> kind, m |-> m, s |-> s, b |-> b, fence |-> fence, res |-> res,
     removed |-> FALSE, imported |-> {}, textures |-> {}]

\* ------------------------------------------------------------------------
\* Operations of RenderingLayer on its tables
\* ------------------------------------------------------------------------

\* mutant: queue_buffer_release without the duplicate check
queue_buffer_release_nodedup(dr, k) == Append(dr, k)

\* queue_buffer_release: push unless an equal entry is already queued
queue_buffer_release(dr, k) ==
    IF \E i \in 1..Len(dr) : dr[i] = k THEN dr ELSE Append(dr, k)

\* mutant: cancel_fence_wait that keeps the handle in the table
cancel_fence_wait_kept(ft, k) == ft

\* cancel_fence_wait: drop the handle; the scheduler suppresses the callback of
\* a task that has not fired (FenceScheduler::cancel), so no task stays live.
cancel_fence_wait(ft, k) == MapRemove(ft, k)

\* The fence_tasks entry of k is dropped without FenceScheduler::cancel: a task
\* that has not fired yet stays live in the scheduler, unknown to the layer.
Orphaned(ft, orph, k) ==
    IF k \in DOMAIN ft /\ ft[k] THEN [orph EXCEPT ![k] = @ + 1] ELSE orph

\* spawn_acquire_fence_waiter: reschedule the existing task when the fd clone
\* succeeds and the task is still live; otherwise forget it and schedule anew.
spawn_acquire_fence_waiter(ft, orph, k, cloneOk) ==
    IF k \in DOMAIN ft /\ cloneOk /\ ft[k]
    THEN [tasks |-> ft, orphans |-> orph]
    ELSE [tasks |-> MapInsert(ft, k, TRUE), orphans |-> Orphaned(ft, orph, k)]

\* mutant: an accepted SwapBuffers that leaves the ownership table alone
SwapOwnership_unchanged(own, k) == own

\* slot_ownership.insert(slot_key, SlotOwner::Shift) of an accepted SwapBuffers
SwapOwnership(own, k) == MapInsert(own, k, "Shift")

\* mutant: an accepted SwapBuffers that never displaces the pending buffer
DisplacedPending_none(ms, m, s, b) == {}

\* the displaced pending buffer of (m, s), if an accepted SwapBuffers of
\* buffer b has to cancel and release one
DisplacedPending(ms, m, s, b) ==
    IF <<m, s>> \in DOMAIN ms
       /\ ms[<<m, s>>].pending_buffer # None
       /\ ms[<<m, s>>].pending_buffer # b
    THEN {ms[<<m, s>>].pending_buffer} ELSE {}

\* monitor_state.entry((m, s)).or_default()
EntryOrDefault(ms, m, s) ==
    IF <<m, s>> \in DOMAIN ms THEN ms[<<m, s>>] ELSE DefaultSurfaceState

\* mutant: the immediate promotion forgets to clear pending_buffer
SwapSurfaceState_keepsPending(st, b, hasFence) ==
    IF hasFence THEN [st EXCEPT !.pending_buffer = b]
    ELSE [st EXCEPT !.current_buffer = b]

\* the surface state (m, s) after an accepted SwapBuffers of buffer b
SwapSurfaceState(st, b, hasFence) ==
    IF hasFence THEN [st EXCEPT !.pending_buffer = b]
    ELSE [current_buffer |-> b, pending_buffer |-> None]

\* previous.filter(|prev| *prev != slot): the buffer a promotion of b displaces
DisplacedCurrent(st, b) ==
    IF st.current_buffer # None /\ st.current_buffer # b
    THEN {st.current_buffer} ELSE {}

\* queue every buffer of bs (at most one) of (m, s)
QueueAll(dr, m, s, bs) ==
    IF bs = {} THEN dr ELSE queue_buffer_release(dr, SlotKey(m, s, CHOOSE b \in bs : TRUE))

\* mutant: process_deferred_releases that leaves the ownership table alone
ReleaseOwnership_kept(own, dr) == own

\* process_deferred_releases: ownership after draining the queue
ReleaseOwnership(own, dr) ==
    [x \in (DOMAIN own) \cup SeqSet(dr) |-> IF x \in SeqSet(dr) THEN "Client" ELSE own[x]]

\* mutant: process_deferred_releases that emits no event
ConsumedEvents_none(dr, fence) == <<>>

\* process_deferred_releases: one BufferConsumed per drained entry, in order
ConsumedEvents(dr, fence) == [i \in 1..Len(dr) |-> BufferConsumed(dr[i], fence)]

\* import_framebuffers: the keys installed for the imported buffers
ImportedKeys(m, s, imported) == {SlotKey(m, s, b) : b \in imported}

\* mutant: an imported buffer installed as owned by Shift
ImportOwnership_shift(own, ks) ==
    [x \in (DOMAIN own) \cup ks |-> IF x \in ks THEN "Shift" ELSE own[x]]

\* slot_ownership.insert(key, SlotOwner::Client) for every imported buffer
ImportOwnership(own, ks) ==
    [x \in (DOMAIN own) \cup ks |-> IF x \in ks THEN "Client" ELSE own[x]]

\* mutant: a cleanup that forgets the ownership table
cleanup_ownership_kept(own, keep) == own

\* mutant: a cleanup that forgets the deferred releases
cleanup_deferred_releases_kept(dr, keep) == dr

\* mutant: a cleanup that forgets the slot table
cleanup_slots_kept(sl, keep) == sl

\* mutant: a cleanup that forgets the surface states
cleanup_monitor_state_kept(ms, keep) == ms

\* cleanup_monitor_slots / cleanup_session_slots (and the monitor_state.retain
\* next to them): each table keeps the entries of the other monitors / sessions;
\* every fence task dropped is cancelled
cleanup_slots(sl, keep) == sl \cap keep
cleanup_monitor_state(ms, keep) == MapRetain(ms, keep)
cleanup_fence_tasks(ft, keep) == MapRetain(ft, keep)
cleanup_ownership(own, keep) == MapRetain(own, keep)
cleanup_deferred_releases(dr, keep) == SeqRetain(dr, keep)

\* keys a cleanup keeps
OtherMonitorKeys(m) == {k \in Keys : k[1] # m}
OtherSessionKeys(s) == {k \in Keys : k[2] # s}
OtherMonitorPairs(m) == {p \in Monitors \X Sessions : p[1] # m}
OtherSessionPairs(s) == {p \in Monitors \X Sessions : p[2] # s}

\* the first loop of a frame iteration: a default surface state for every
\* DRM monitor under the current session
EnsureSurfaceStates(ms, mons, cs) ==
    IF cs = None THEN ms
    ELSE [p \in (DOMAIN ms) \cup (mons \X {cs}) |->
            IF p \in DOMAIN ms THEN ms[p] ELSE DefaultSurfaceState]

\* ------------------------------------------------------------------------
\* Option values of the other components
\* ------------------------------------------------------------------------

\* Option<T>: Some(x) / None of a value that is not a string
Some(x) == [some |-> TRUE, val |-> x]
NoPayload == [some |-> FALSE, val |-> <<>>]

\* no call of the wire framing or of resolve_transition is in progress
NoCall == [fn |-> "none"]

\* FramePresenter::new: active_transition = None
NoTransition == [some |-> FALSE, transition |-> "none", state |-> 0, last_progress |-> 0]

\* render has not been called
NoRender == [called |-> FALSE]

\* the components checked on their own are not in use
NoComponent == [used |-> FALSE]
ComponentsIdle ==
    /\ render_state = NoComponent
    /\ cursor_sync = NoComponent
    /\ registry = NoComponent

\* ------------------------------------------------------------------------
\* Initial state: RenderingLayer::init
\* ------------------------------------------------------------------------

Init ==
    /\ pc = "init"
    /\ drm_monitors \in SUBSET Monitors
    /\ known_monitors = {}
    /\ monitor_state = EmptyMap
    /\ slots = {}
    /\ slot_ownership = EmptyMap
    /\ fence_tasks = EmptyMap
    /\ orphan_tasks = [k \in Keys |-> 0]
    /\ fence_events = <<>>
    /\ deferred_releases = <<>>
    /\ current_session = None
    /\ committed_any = FALSE
    /\ budget = MaxCmds
    /\ owed = [k \in Keys |-> 0]
    /\ unmatched = [p \in Monitors \X Sessions |-> 0]
    /\ lastOp = Op("init", None, None, None, FALSE, None)
    /\ lastEvents = <<>>
    /\ acked = {}
    /\ offlineSince = {}
    /\ call = NoCall
    /\ active_transition = NoTransition
    /\ lastRender = NoRender
    /\ ComponentsIdle

\* number of events of the given type and key in evs
CountEvents(evs, type, ks) ==
    Cardinality({i \in 1..Len(evs) :
                   evs[i].type = type /\ SlotKey(evs[i].m, evs[i].s, evs[i].b) \in ks})

PairKeys(p) == {k \in Keys : k[1] = p[1] /\ k[2] = p[2]}

\* the history variables follow the events of the step; displaced: the keys the
\* step displaced from current or pending; purged: the (m, s) pairs it purged
ObserveStep(evs, displaced, purged) ==
    /\ lastEvents' = evs
    /\ owed' = [k \in Keys |->
                 IF <<k[1], k[2]>> \in purged THEN 0
                 ELSE (IF k \in displaced THEN 1 ELSE owed[k])
                        - CountEvents(evs, "BufferConsumed", {k})]
    /\ unmatched' = [p \in Monitors \X Sessions |->
                 IF p \in purged THEN 0
                 ELSE unmatched[p] + CountEvents(evs, "BufferRequestAck", PairKeys(p))
                        - CountEvents(evs, "BufferConsumed", PairKeys(p))]
    /\ acked' = acked \cup {SlotKey(evs[i].m, evs[i].s, evs[i].b) :
                              i \in {j \in 1..Len(evs) : evs[j].type = "BufferRequestAck"}}
    /\ offlineSince' =
         (offlineSince \cup {evs[i].m : i \in {j \in 1..Len(evs) : evs[j].type = "MonitorOffline"}})
            \ {evs[i].m : i \in {j \in 1..Len(evs) : evs[j].type = "MonitorOnline"}}
    /\ UNCHANGED <<call, active_transition, lastRender, component_vars>>

Observe(evs) == ObserveStep(evs, {}, {})

\* ------------------------------------------------------------------------
\* run(): start-up and the frame iteration
\* ------------------------------------------------------------------------

\* mutant: run() that forgets to initialise known_monitors
Start_unknown ==
    /\ pc = "init"
    /\ pc' = "frame"
    /\ known_monitors' = {}
    /\ lastOp' = Op("Start", None, None, None, FALSE, "ok")
    /\ Observe(<<Started(drm_monitors)>>)
    /\ UNCHANGED <<drm_monitors, monitor_state, slots, slot_ownership, fence_tasks,
                   orphan_tasks, fence_events, deferred_releases, current_session,
                   committed_any, budget>>

\* run() up to the loop: emit Started, then known_monitors <- current
Start ==
    /\ pc = "init"
    /\ pc' = "frame"
    /\ known_monitors' = drm_monitors
    /\ lastOp' = Op("Start", None, None, None, FALSE, "ok")
    /\ Observe(<<Started(drm_monitors)>>)
    /\ UNCHANGED <<drm_monitors, monitor_state, slots, slot_ownership, fence_tasks,
                   orphan_tasks, fence_events, deferred_releases, current_session,
                   committed_any, budget>>

\* check_open_fd_guard fails (debug builds): run() returns the error at once
FrameFdGuard ==
    /\ pc = "frame"
    /\ pc' = "failed"
    /\ lastOp' = Op("Frame", None, None, None, FALSE, "fdguard")
    /\ Observe(<<>>)
    /\ UNCHANGED <<drm_monitors, known_monitors, monitor_state, slots, slot_ownership,
                   fence_tasks, orphan_tasks, fence_events, deferred_releases,
                   current_session, committed_any, budget>>

\* mutant: the deferred releases are processed before the DRM swap is known to
\* have succeeded
FrameFatal_releases ==
    /\ pc = "frame"
    /\ pc' = "failed"
    /\ monitor_state' = EnsureSurfaceStates(monitor_state, drm_monitors, current_session)
    /\ slot_ownership' = ReleaseOwnership(slot_ownership, deferred_releases)
    /\ deferred_releases' = <<>>
    /\ lastOp' = Op("Frame", None, None, None, FALSE, "fatal")
    /\ Observe(ConsumedEvents(deferred_releases, "none"))
    /\ UNCHANGED <<drm_monitors, known_monitors, slots, fence_tasks, orphan_tasks,
                   fence_events, current_session, committed_any, budget>>

\* ensure_surface_target or swap_buffers_with_result fails: the surface states
\* were created, nothing is released, no event is sent
FrameFatal ==
    /\ pc = "frame"
    /\ pc' = "failed"
    /\ monitor_state' = EnsureSurfaceStates(monitor_state, drm_monitors, current_session)
    /\ lastOp' = Op("Frame", None, None, None, FALSE, "fatal")
    /\ Observe(<<>>)
    /\ UNCHANGED <<drm_monitors, known_monitors, slots, slot_ownership, fence_tasks,
                   orphan_tasks, fence_events, deferred_releases, current_session,
                   committed_any, budget>>

\* the slot the draw loop looks up for monitor m under the current session cs
DrawKey(ms, m, cs) == SlotKey(m, cs, ms[<<m, cs>>].current_buffer)

\* mutant: the draw loop without the ownership test
DrawnTextures_anyOwner(ms, sl, own, cs, rendered) ==
    IF cs = None THEN {}
    ELSE {DrawKey(ms, m, cs) : m \in {x \in rendered :
              /\ ms[<<x, cs>>].current_buffer # None
              /\ DrawKey(ms, x, cs) \in sl}}

\* the draw loop: for every monitor that can render and was made current, the
\* texture of the current buffer of (monitor, current session) is drawn when
\* its slot is owned by Shift and is in the slot table
DrawnTextures(ms, sl, own, cs, rendered) ==
    IF cs = None THEN {}
    ELSE {DrawKey(ms, m, cs) : m \in {x \in rendered :
              /\ ms[<<x, cs>>].current_buffer # None
              /\ DrawKey(ms, x, cs) \in DOMAIN own
              /\ own[DrawKey(ms, x, cs)] = "Shift"
              /\ DrawKey(ms, x, cs) \in sl}}

\* mutant: PageFlip sent before the deferred releases are processed
FrameEvents_flipFirst(dr, fence, drawn) == <<PageFlip(drawn)>> \o ConsumedEvents(dr, fence)

\* mutant: the deferred releases are drained without an event
FrameEvents_flipOnly(dr, fence, drawn) == <<PageFlip(drawn)>>

\* the events of a frame iteration whose DRM swap succeeded:
\* process_deferred_releases, then PageFlip
FrameEvents(dr, fence, drawn) == ConsumedEvents(dr, fence) \o <<PageFlip(drawn)>>

\* a whole frame iteration: surface states, draw, DRM swap,
\* process_deferred_releases, PageFlip.  rendered: the monitors with
\* can_render() whose make_current succeeded; drawn: the monitors with was_drawn();
\* committed: whether a connector was committed; fence: the release fence a
\* BufferConsumed carries ("fence": a duplicate of render_fence, "none":
\* render_fence < 0 or dup failed).
Frame(rendered, drawn, committed, fence) ==
    /\ pc = "frame"
    /\ pc' = "wait"
    /\ monitor_state' = EnsureSurfaceStates(monitor_state, drm_monitors, current_session)
    /\ slot_ownership' = ReleaseOwnership(slot_ownership, deferred_releases)
    /\ deferred_releases' = <<>>
    /\ committed_any' = committed
    /\ lastOp' = [Op("Frame", None, None, None, FALSE, "ok") EXCEPT
                    !.textures = DrawnTextures(monitor_state', slots, slot_ownership,
                                               current_session, rendered)]
    /\ Observe(FrameEvents(deferred_releases, fence, drawn))
    /\ UNCHANGED <<drm_monitors, known_monitors, slots, fence_tasks, orphan_tasks,
                   fence_events, current_session, budget>>

\* ------------------------------------------------------------------------
\* handle_command
\* ------------------------------------------------------------------------

CanHandle == pc = "wait" /\ budget > 0

\* mutant: Shutdown handled like any other command (the loop goes on)
Shutdown_continues(why) ==
    /\ pc = "wait"
    /\ pc' = "wait"
    /\ lastOp' = Op(why, None, None, None, FALSE, "ok")
    /\ Observe(<<>>)
    /\ UNCHANGED <<drm_monitors, known_monitors, monitor_state, slots, slot_ownership,
                   fence_tasks, orphan_tasks, fence_events, deferred_releases,
                   current_session, committed_any, budget>>

\* RenderCmd::Shutdown, or the command channel is closed: break 'e
Shutdown(why) ==
    /\ pc = "wait"
    /\ pc' = "done"
    /\ lastOp' = Op(why, None, None, None, FALSE, "ok")
    /\ Observe(<<>>)
    /\ UNCHANGED <<drm_monitors, known_monitors, monitor_state, slots, slot_ownership,
                   fence_tasks, orphan_tasks, fence_events, deferred_releases,
                   current_session, committed_any, budget>>

\* RenderCmd::FramebufferLink -> import_framebuffers.  m is the parsed monitor
\* id, or "invalid" when payload.monitor_id does not parse; imported is the set
\* of buffers whose DMA-BUF import succeeded (empty when make_current fails).
FramebufferLink(m, s, imported) ==
    /\ CanHandle
    /\ budget' = budget - 1
    /\ IF m \in drm_monitors
       THEN /\ slots' = slots \cup ImportedKeys(m, s, imported)
            /\ slot_ownership' = ImportOwnership(slot_ownership, ImportedKeys(m, s, imported))
            /\ lastOp' = [Op("FramebufferLink", m, s, None, FALSE, "linked")
                             EXCEPT !.imported = imported]
       ELSE /\ UNCHANGED <<slots, slot_ownership>>
            /\ lastOp' = [Op("FramebufferLink", m, s, None, FALSE, "dropped")
                             EXCEPT !.imported = imported]
    /\ Observe(<<>>)
    /\ UNCHANGED <<pc, drm_monitors, known_monitors, monitor_state, fence_tasks,
                   orphan_tasks, fence_events, deferred_releases, current_session,
                   committed_any>>

\* RenderCmd::SetActiveSession
SetActiveSession(s) ==
    /\ CanHandle
    /\ budget' = budget - 1
    /\ current_session' = s
    /\ lastOp' = Op("SetActiveSession", None, s, None, FALSE, "ok")
    /\ Observe(<<>>)
    /\ UNCHANGED <<pc, drm_monitors, known_monitors, monitor_state, slots,
                   slot_ownership, fence_tasks, orphan_tasks, fence_events,
                   deferred_releases, committed_any>>

\* RenderCmd::SessionRemoved -> cleanup_session_slots, then clear current_session
SessionRemoved(s) ==
    /\ CanHandle
    /\ budget' = budget - 1
    /\ slots' = cleanup_slots(slots, OtherSessionKeys(s))
    /\ slot_ownership' = cleanup_ownership(slot_ownership, OtherSessionKeys(s))
    /\ monitor_state' = cleanup_monitor_state(monitor_state, OtherSessionPairs(s))
    /\ deferred_releases' = cleanup_deferred_releases(deferred_releases, OtherSessionKeys(s))
    /\ fence_tasks' = cleanup_fence_tasks(fence_tasks, OtherSessionKeys(s))
    /\ current_session' = IF current_session = s THEN None ELSE current_session
    /\ fence_events' = [i \in 1..Len(fence_events) |->
                          IF fence_events[i].key[2] = s
                          THEN [fence_events[i] EXCEPT !.removed = TRUE]
                          ELSE fence_events[i]]
    /\ lastOp' = Op("SessionRemoved", None, s, None, FALSE,
                     IF slots \subseteq OtherSessionKeys(s) THEN "ok" ELSE "purged")
    /\ ObserveStep(<<>>, {}, (Monitors \X Sessions) \ OtherSessionPairs(s))
    /\ UNCHANGED <<pc, drm_monitors, known_monitors, orphan_tasks, committed_any>>

\* mutant: the two rejection reasons exchanged
RejectReason_swapped(m) == IF m \notin known_monitors THEN "unlinked_buffer" ELSE "unknown_monitor"

\* the reason of a rejected SwapBuffers
RejectReason(m) == IF m \notin known_monitors THEN "unknown_monitor" ELSE "unlinked_buffer"

\* RenderCmd::SwapBuffers, rejected: monitor unknown or slot not linked
SwapBuffersRejected(m, s, b, hasFence) ==
    /\ CanHandle
    /\ m \notin known_monitors \/ SlotKey(m, s, b) \notin slots
    /\ budget' = budget - 1
    /\ lastOp' = Op("SwapBuffers", m, s, b, hasFence, "rejected")
    /\ Observe(<<BufferRequestRejected(SlotKey(m, s, b), RejectReason(m))>>)
    /\ UNCHANGED <<pc, drm_monitors, known_monitors, monitor_state, slots,
                   slot_ownership, fence_tasks, orphan_tasks, fence_events,
                   deferred_releases, current_session, committed_any>>

\* mutant: an accepted SwapBuffers that sends no BufferRequestAck
AcceptedEvents_none(k) == <<>>

\* the events an accepted SwapBuffers sends
AcceptedEvents(k) == <<BufferRequestAck(k)>>

\* RenderCmd::SwapBuffers, accepted.  cloneOk: whether try_clone_to_owned of the
\* acquire fence succeeds (read only when a task for the key exists).
SwapBuffersAccepted(m, s, b, hasFence, cloneOk) ==
    LET k == SlotKey(m, s, b)
        disp == DisplacedPending(monitor_state, m, s, b)
        ft1 == IF disp = {} THEN fence_tasks
               ELSE cancel_fence_wait(fence_tasks, SlotKey(m, s, CHOOSE p \in disp : TRUE))
        dr1 == QueueAll(deferred_releases, m, s, disp)
        sp == spawn_acquire_fence_waiter(ft1, orphan_tasks, k, cloneOk)
        st == EntryOrDefault(monitor_state, m, s)
    IN
    /\ CanHandle
    /\ m \in known_monitors /\ k \in slots
    /\ budget' = budget - 1
    /\ fence_tasks' = IF hasFence THEN sp.tasks ELSE cancel_fence_wait(ft1, k)
    /\ orphan_tasks' = IF hasFence THEN sp.orphans ELSE orphan_tasks
    /\ monitor_state' = MapInsert(monitor_state, <<m, s>>, SwapSurfaceState(st, b, hasFence))
    /\ slot_ownership' = SwapOwnership(slot_ownership, k)
    /\ deferred_releases' =
         IF hasFence THEN dr1 ELSE QueueAll(dr1, m, s, DisplacedCurrent(st, b))
    /\ lastOp' = Op("SwapBuffers", m, s, b, hasFence, "accepted")
    /\ ObserveStep(AcceptedEvents(k),
                   {SlotKey(m, s, x) : x \in disp \cup
                        (IF hasFence THEN {} ELSE DisplacedCurrent(st, b))},
                   {})
    /\ UNCHANGED <<pc, drm_monitors, known_monitors, slots, fence_events,
                   current_session, committed_any>>

\* ------------------------------------------------------------------------
\* Fence completion
\* ------------------------------------------------------------------------

\* FenceScheduler thread: the fence of the task of key k signals; the callback
\* sends FenceEvent::Signaled { key } and the task is complete.
FenceSignal(k) ==
    /\ pc \in {"frame", "wait"}
    /\ k \in DOMAIN fence_tasks /\ fence_tasks[k]
    /\ fence_tasks' = [fence_tasks EXCEPT ![k] = FALSE]
    /\ fence_events' = Append(fence_events, [key |-> k, removed |-> FALSE])
    /\ lastOp' = Op("FenceSignal", k[1], k[2], k[3], TRUE, "task")
    /\ Observe(<<>>)
    /\ UNCHANGED <<pc, drm_monitors, known_monitors, monitor_state, slots,
                   slot_ownership, orphan_tasks, deferred_releases, current_session,
                   committed_any, budget>>

\* the same for a task the layer no longer holds a handle of
OrphanSignal(k) ==
    /\ pc \in {"frame", "wait"}
    /\ orphan_tasks[k] > 0
    /\ orphan_tasks' = [orphan_tasks EXCEPT ![k] = @ - 1]
    /\ fence_events' = Append(fence_events, [key |-> k, removed |-> FALSE])
    /\ lastOp' = Op("FenceSignal", k[1], k[2], k[3], TRUE, "orphan")
    /\ Observe(<<>>)
    /\ UNCHANGED <<pc, drm_monitors, known_monitors, monitor_state, slots,
                   slot_ownership, fence_tasks, deferred_releases, current_session,
                   committed_any, budget>>

\* mutant: a promotion that forgets to clear pending_buffer
PromoteSurfaceState_keepsPending(st, b) == [st EXCEPT !.current_buffer = b]

\* the surface state after the promotion of buffer b by its fence event
PromoteSurfaceState(st, b) == [current_buffer |-> b, pending_buffer |-> None]

\* mutant: a fence event promotes its buffer whatever pending_buffer is
FencePromotes_any(ms, k) == <<k[1], k[2]>> \in DOMAIN ms

\* whether handle_fence_event promotes key k
FencePromotes(ms, k) ==
    /\ <<k[1], k[2]>> \in DOMAIN ms
    /\ ms[<<k[1], k[2]>>].pending_buffer = k[3]

\* handle_fence_event(FenceEvent::Signaled { key }) for the head of the channel
HandleFenceEvent ==
    LET k == Head(fence_events).key
        p == <<k[1], k[2]>>
        stale == Head(fence_events).removed
    IN
    /\ pc = "wait"
    /\ fence_events # <<>>
    /\ fence_events' = Tail(fence_events)
    /\ fence_tasks' = MapRemove(fence_tasks, k)
    /\ orphan_tasks' = Orphaned(fence_tasks, orphan_tasks, k)
    /\ IF FencePromotes(monitor_state, k)
       THEN /\ monitor_state' = [monitor_state EXCEPT
                                   ![p] = PromoteSurfaceState(@, k[3])]
            /\ deferred_releases' = QueueAll(deferred_releases, k[1], k[2],
                                             DisplacedCurrent(monitor_state[p], k[3]))
            /\ lastOp' = [Op("HandleFenceEvent", k[1], k[2], k[3], TRUE, "promoted")
                             EXCEPT !.removed = stale]
            /\ ObserveStep(<<>>, {SlotKey(k[1], k[2], x) :
                                    x \in DisplacedCurrent(monitor_state[p], k[3])}, {})
       ELSE /\ UNCHANGED <<monitor_state, deferred_releases>>
            /\ lastOp' = [Op("HandleFenceEvent", k[1], k[2], k[3], TRUE, "ignored")
                             EXCEPT !.removed = stale]
            /\ Observe(<<>>)
    /\ UNCHANGED <<pc, drm_monitors, known_monitors, slots, slot_ownership,
                   current_session, committed_any, budget>>

\* ------------------------------------------------------------------------
\* DRM events and monitor hot-plug
\* ------------------------------------------------------------------------

\* mutant: sync_monitors that reports only the monitors that are gone
SyncEvents_offlineOnly(online, offline) ==
    [i \in 1..Len(offline) |-> MonitorOffline(offline[i])]

\* sync_monitors: MonitorOnline for each monitor not known, then MonitorOffline
\* for each known monitor that is gone
SyncEvents(online, offline) ==
    [i \in 1..Len(online) |-> MonitorOnline(online[i])]
        \o [i \in 1..Len(offline) |-> MonitorOffline(offline[i])]

\* poll_events_async returns Ok: EasyDRM's monitor set is now mons; then
\* sync_monitors and break 'l
DrmPoll(mons) ==
    LET gone == known_monitors \ mons
        keepKeys == {k \in Keys : k[1] \notin gone}
        keepPairs == {p \in Monitors \X Sessions : p[1] \notin gone}
    IN
    /\ pc = "wait"
    /\ pc' = "frame"
    /\ drm_monitors' = mons
    /\ known_monitors' = mons
    /\ monitor_state' = cleanup_monitor_state(monitor_state, keepPairs)
    /\ slots' = cleanup_slots(slots, keepKeys)
    /\ slot_ownership' = cleanup_ownership(slot_ownership, keepKeys)
    /\ deferred_releases' = cleanup_deferred_releases(deferred_releases, keepKeys)
    /\ fence_tasks' = cleanup_fence_tasks(fence_tasks, keepKeys)
    /\ lastOp' = Op("DrmPoll", None, None, None, FALSE, "ok")
    /\ \E online \in Orders(mons \ known_monitors), offline \in Orders(gone) :
          ObserveStep(SyncEvents(online, offline), {}, (Monitors \X Sessions) \ keepPairs)
    /\ UNCHANGED <<orphan_tasks, fence_events, current_session, committed_any, budget>>

\* poll_events_async returns an error: run() returns it
DrmPollFatal ==
    /\ pc = "wait"
    /\ pc' = "failed"
    /\ lastOp' = Op("DrmPoll", None, None, None, FALSE, "fatal")
    /\ Observe(<<>>)
    /\ UNCHANGED <<drm_monitors, known_monitors, monitor_state, slots, slot_ownership,
                   fence_tasks, orphan_tasks, fence_events, deferred_releases,
                   current_session, committed_any, budget>>

\* mutant: the sleep branch guarded by committed_any instead of !committed_any
IdleTimeout_whenCommitted ==
    /\ pc = "wait"
    /\ committed_any
    /\ pc' = "frame"
    /\ lastOp' = Op("IdleTimeout", None, None, None, FALSE, "ok")
    /\ Observe(<<>>)
    /\ UNCHANGED <<drm_monitors, known_monitors, monitor_state, slots, slot_ownership,
                   fence_tasks, orphan_tasks, fence_events, deferred_releases,
                   current_session, committed_any, budget>>

\* the 2 ms sleep branch, enabled when the last frame committed no connector
IdleTimeout ==
    /\ pc = "wait"
    /\ ~committed_any
    /\ pc' = "frame"
    /\ lastOp' = Op("IdleTimeout", None, None, None, FALSE, "ok")
    /\ Observe(<<>>)
    /\ UNCHANGED <<drm_monitors, known_monitors, monitor_state, slots, slot_ownership,
                   fence_tasks, orphan_tasks, fence_events, deferred_releases,
                   current_session, committed_any, budget>>

\* ------------------------------------------------------------------------
\* Specification
\* ------------------------------------------------------------------------

Next ==
    \/ Start
    \/ FrameFdGuard
    \/ FrameFatal
    \/ \E rendered \in SUBSET drm_monitors, drawn \in SUBSET drm_monitors,
          committed \in BOOLEAN, fence \in {"fence", "none"} :
          Frame(rendered, drawn, committed, fence)
    \/ \E why \in {"Shutdown", "ChannelClosed"} : Shutdown(why)
    \/ \E m \in Monitors \cup {"invalid"}, s \in Sessions, imported \in SUBSET BufferSlot :
          FramebufferLink(m, s, imported)
    \/ \E s \in Sessions \cup {None} : SetActiveSession(s)
    \/ \E s \in Sessions : SessionRemoved(s)
    \/ \E m \in Monitors, s \in Sessions, b \in BufferSlot, hasFence \in BOOLEAN :
          SwapBuffersRejected(m, s, b, hasFence)
    \/ \E m \in Monitors, s \in Sessions, b \in BufferSlot, hasFence \in BOOLEAN,
          cloneOk \in BOOLEAN :
          SwapBuffersAccepted(m, s, b, hasFence, cloneOk)
    \/ \E k \in Keys : FenceSignal(k)
    \/ \E k \in Keys : OrphanSignal(k)
    \/ HandleFenceEvent
    \/ \E mons \in SUBSET Monitors : DrmPoll(mons)
    \/ DrmPollFatal
    \/ IdleTimeout

Spec == Init /\ [][Next]_vars

\* The same program driven on one monitor and one session, for longer runs.
DeepMonitors == {"m1"}
DeepSessions == {"s1"}

\* run() entered with the monitors present and the commands still to come
InitRun(monitors, commands) ==
    /\ pc = "init"
    /\ drm_monitors = monitors
    /\ known_monitors = {}
    /\ monitor_state = EmptyMap
    /\ slots = {}
    /\ slot_ownership = EmptyMap
    /\ fence_tasks = EmptyMap
    /\ orphan_tasks = [k \in Keys |-> 0]
    /\ fence_events = <<>>
    /\ deferred_releases = <<>>
    /\ current_session = None
    /\ committed_any = FALSE
    /\ budget = commands
    /\ owed = [k \in Keys |-> 0]
    /\ unmatched = [p \in Monitors \X Sessions |-> 0]
    /\ lastOp = Op("init", None, None, None, FALSE, None)
    /\ lastEvents = <<>>
    /\ acked = {}
    /\ offlineSince = {}
    /\ call = NoCall
    /\ active_transition = NoTransition
    /\ lastRender = NoRender
    /\ ComponentsIdle

InitDeep == InitRun(DeepMonitors, MaxCmdsDeep)

NextDeep ==
    \/ Start
    \/ FrameFdGuard
    \/ FrameFatal
    \/ \E committed \in BOOLEAN, fence \in {"fence", "none"} :
          Frame(drm_monitors, drm_monitors, committed, fence)
    \/ Shutdown("Shutdown")
    \/ \E s \in DeepSessions, imported \in {BufferSlot, {"Zero"}} :
          FramebufferLink("m1", s, imported)
    \/ \E s \in DeepSessions : SetActiveSession(s)
    \/ \E s \in DeepSessions : SessionRemoved(s)
    \/ \E m \in DeepMonitors, s \in DeepSessions, b \in BufferSlot :
          SwapBuffersRejected(m, s, b, FALSE)
    \/ \E m \in DeepMonitors, s \in DeepSessions, b \in BufferSlot, hasFence \in BOOLEAN :
          SwapBuffersAccepted(m, s, b, hasFence, TRUE)
    \/ \E k \in Keys : FenceSignal(k)
    \/ \E k \in Keys : OrphanSignal(k)
    \/ HandleFenceEvent
    \/ DrmPoll(DeepMonitors)
    \/ DrmPollFatal
    \/ IdleTimeout

SpecDeep == InitDeep /\ [][NextDeep]_vars

\* SpecDeep with the 2 ms timer of the select loop firing when it stays armed
SpecLive == InitDeep /\ [][NextDeep]_vars /\ WF_vars(IdleTimeout)

\* The same with hot-unplug, and with the loop driven on: a wait phase ends (a
\* DRM event arrives or the 2 ms timer fires) and a frame iteration that has
\* started runs to its end.
NextDrive ==
    \/ NextDeep
    \/ DrmPoll({})

Wake == IdleTimeout \/ DrmPoll(DeepMonitors) \/ DrmPoll({}) \/ DrmPollFatal

FrameIteration ==
    \/ FrameFdGuard
    \/ FrameFatal
    \/ \E committed \in BOOLEAN, fence \in {"fence", "none"} :
          Frame(drm_monitors, drm_monitors, committed, fence)

SpecDrive ==
    InitDeep /\ [][NextDrive]_vars /\ WF_vars(Wake) /\ WF_vars(FrameIteration)

\* SpecDeep with one more command, for the longest scenarios
InitLong == InitRun(DeepMonitors, MaxCmdsLong)

SpecLong == InitLong /\ [][NextDeep]_vars

\* The program on one monitor and two sessions
InitPair == InitRun(DeepMonitors, MaxCmds)

NextPair ==
    \/ Start
    \/ FrameFdGuard
    \/ FrameFatal
    \/ \E committed \in BOOLEAN, fence \in {"fence", "none"} :
          Frame(drm_monitors, drm_monitors, committed, fence)
    \/ \E why \in {"Shutdown", "ChannelClosed"} : Shutdown(why)
    \/ \E s \in Sessions : FramebufferLink("m1", s, BufferSlot)
    \/ \E s \in Sessions \cup {None} : SetActiveSession(s)
    \/ \E s \in Sessions : SessionRemoved(s)
    \/ \E s \in Sessions, b \in BufferSlot : SwapBuffersRejected("m1", s, b, FALSE)
    \/ \E s \in Sessions, b \in BufferSlot, hasFence \in BOOLEAN :
          SwapBuffersAccepted("m1", s, b, hasFence, TRUE)
    \/ \E k \in Keys : FenceSignal(k)
    \/ \E k \in Keys : OrphanSignal(k)
    \/ HandleFenceEvent
    \/ DrmPoll(DeepMonitors)
    \/ DrmPollFatal
    \/ IdleTimeout

SpecPair == InitPair /\ [][NextPair]_vars

\* The program on two monitors and one session, with hot-plug
InitPlug == InitRun(Monitors, MaxCmds)

NextPlug ==
    \/ Start
    \/ FrameFdGuard
    \/ FrameFatal
    \/ \E committed \in BOOLEAN, fence \in {"fence", "none"} :
          Frame(drm_monitors, drm_monitors, committed, fence)
    \/ \E why \in {"Shutdown", "ChannelClosed"} : Shutdown(why)
    \/ \E m \in Monitors : FramebufferLink(m, "s1", BufferSlot)
    \/ SetActiveSession("s1")
    \/ SessionRemoved("s1")
    \/ \E m \in Monitors, b \in BufferSlot : SwapBuffersRejected(m, "s1", b, FALSE)
    \/ \E m \in Monitors, b \in BufferSlot, hasFence \in BOOLEAN :
          SwapBuffersAccepted(m, "s1", b, hasFence, TRUE)
    \/ \E k \in Keys : FenceSignal(k)
    \/ \E k \in Keys : OrphanSignal(k)
    \/ HandleFenceEvent
    \/ \E mons \in SUBSET Monitors : DrmPoll(mons)
    \/ DrmPollFatal
    \/ IdleTimeout

SpecPlug == InitPlug /\ [][NextPlug]_vars

\* ------------------------------------------------------------------------
\* The rendering layer at rest, for the specifications of the other components
\* ------------------------------------------------------------------------

LayerIdle ==
    /\ pc = "init"
    /\ drm_monitors = {}
    /\ known_monitors = {}
    /\ monitor_state = EmptyMap
    /\ slots = {}
    /\ slot_ownership = EmptyMap
    /\ fence_tasks = EmptyMap
    /\ orphan_tasks = [k \in Keys |-> 0]
    /\ fence_events = <<>>
    /\ deferred_releases = <<>>
    /\ current_session = None
    /\ committed_any = FALSE
    /\ budget = 0
    /\ owed = [k \in Keys |-> 0]
    /\ unmatched = [p \in Monitors \X Sessions |-> 0]
    /\ lastOp = Op("init", None, None, None, FALSE, None)
    /\ lastEvents = <<>>
    /\ acked = {}
    /\ offlineSince = {}

SeqsUpTo(S, n) == UNION {[1..k -> S] : k \in 0..n}

\* ------------------------------------------------------------------------
\* Wire framing: TabMessageFrame (tab-protocol/src/message_frame.rs)
\* ------------------------------------------------------------------------

MaxHeaderLen == 2     \* longest header of a frame
MaxPayloadLen == 2    \* longest payload of a frame, the four-NUL text apart
MaxRecvLen == 4       \* most bytes one recvmsg returns
MaxEintr == 2         \* most EINTR results of recvmsg within one read_framed

NL == "NL"            \* '\n'
NUL == "NUL"          \* '\0'
\* the characters of a String: a letter, a space, a newline, a NUL
Chars == {"a", "SP", NL, NUL}
\* the bytes of a receive buffer: the characters and a byte no UTF-8 text holds
Bytes == Chars \cup {"xFF"}
\* char::is_whitespace
Whitespace == {"SP", NL}
\* the payload line of a frame without payload
FourNul == <<NUL, NUL, NUL, NUL>>

\* TabMessageFrame { header, payload, fds }
TabMessageFrame(header, payload, fds) ==
    [header |-> header, payload |-> payload, fds |-> fds]

\* the frames with a header and a payload of at most these lengths, and those
\* whose payload is the text of the line that stands for no payload
Frames(header_len, payload_len) ==
    {TabMessageFrame(h, p, fds) :
        h \in SeqsUpTo(Chars, header_len),
        p \in {NoPayload} \cup {Some(s) : s \in SeqsUpTo(Chars, payload_len) \cup {FourNul}},
        fds \in {<<>>, <<"fd">>}}

\* str::trim_end / str::trim_end_matches: drop the trailing characters of ws
RECURSIVE TrimEnd(_, _)
TrimEnd(s, ws) ==
    IF s = <<>> \/ s[Len(s)] \notin ws THEN s
    ELSE TrimEnd(SubSeq(s, 1, Len(s) - 1), ws)

serialize(f) ==
    LET header_line == TrimEnd(f.header, Whitespace)
        payload_line == IF f.payload.some THEN TrimEnd(f.payload.val, {NL}) ELSE FourNul
    IN  header_line \o <<NL>> \o payload_line \o <<NL>>

\* Result<Option<(TabMessageFrame, usize)>, ProtocolError>
Ok(frame, used) == [tag |-> "Ok", err |-> "none", frame |-> frame, used |-> used]
Err(e) == [tag |-> "Err", err |-> e, frame |-> TabMessageFrame(<<>>, NoPayload, <<>>), used |-> 0]
Incomplete == [tag |-> "None", err |-> "none", frame |-> TabMessageFrame(<<>>, NoPayload, <<>>), used |-> 0]
Pending == [tag |-> "Pending", err |-> "none", frame |-> TabMessageFrame(<<>>, NoPayload, <<>>), used |-> 0]

\* String::from_utf8 succeeds
from_utf8(bytes) == \A i \in 1..Len(bytes) : bytes[i] \in Chars

\* the sentinel is never recognised
IsNoPayloadLine_never(payload_str) == FALSE

\* the payload line that stands for no payload
IsNoPayloadLine(payload_str) == payload_str = FourNul

from_lines(header_bytes, payload_bytes, fds) ==
    IF ~from_utf8(header_bytes) \/ ~from_utf8(payload_bytes) THEN Err("Utf8")
    ELSE Ok(TabMessageFrame(header_bytes,
                            IF IsNoPayloadLine(payload_bytes) THEN NoPayload
                            ELSE Some(payload_bytes),
                            fds), 0)

\* bytes[from..].iter().position(|b| *b == b'\n'), as an index from 1; 0: none
NewlineFrom(bytes, from) ==
    LET hits == {i \in from..Len(bytes) : bytes[i] = NL}
    IN  IF hits = {} THEN 0 ELSE CHOOSE i \in hits : \A j \in hits : i <= j

parse_from_bytes(bytes, fds) ==
    LET first_nl == NewlineFrom(bytes, 1)
        second_nl == IF first_nl = 0 THEN 0 ELSE NewlineFrom(bytes, first_nl + 1)
    IN  IF first_nl = 0 \/ second_nl = 0 THEN Incomplete
        ELSE LET frame == from_lines(SubSeq(bytes, 1, first_nl - 1),
                                     SubSeq(bytes, first_nl + 1, second_nl - 1), fds)
             IN  IF frame.tag = "Err" THEN frame ELSE Ok(frame.frame, second_nl)

\* one result of recvmsg: errno, the bytes read, the message flags, the fds
Recv(errno, bytes, trunc, ctrunc, fds) ==
    [errno |-> errno, bytes |-> bytes, trunc |-> trunc, ctrunc |-> ctrunc, fds |-> fds]

\* the results of a recvmsg that returns at most recv_len bytes
Recvs(recv_len) ==
    {Recv(e, <<>>, FALSE, FALSE, <<>>) : e \in {"EAGAIN", "EWOULDBLOCK", "EIO"}}
      \cup {Recv("OK", bytes, trunc, ctrunc, <<>>) :
              bytes \in SeqsUpTo(Bytes, recv_len), trunc \in BOOLEAN, ctrunc \in BOOLEAN}

\* the bytes after the frame are not looked at
TrailingOk_any(data, used) == TRUE

\* the bytes after the frame are padding
TrailingOk(data, used) == \A i \in (used + 1)..Len(data) : data[i] = NUL

\* read_framed after the recvmsg loop has left EINTR behind
read_framed(recv) ==
    IF recv.errno \in {"EAGAIN", "EWOULDBLOCK"} THEN Err("WouldBlock")
    ELSE IF recv.errno # "OK" THEN Err("Nix")
    ELSE IF Len(recv.bytes) = 0 THEN Err("UnexpectedEof")
    ELSE IF recv.trunc THEN Err("Truncated")
    ELSE IF recv.ctrunc THEN Err("Nix")
    ELSE LET parsed == parse_from_bytes(recv.bytes, recv.fds)
         IN  IF parsed.tag = "Err" THEN parsed
             ELSE IF parsed.tag = "None" THEN Err("UnexpectedEof")
             ELSE IF ~TrailingOk(recv.bytes, parsed.used) THEN Err("TrailingData")
             ELSE parsed

\* a call in progress: the function, its position, its inputs and its result
FramingCall(fn, frame, recv) ==
    [fn |-> fn, pc |-> "start", frame |-> frame, bytes |-> <<>>, recv |-> recv,
     eintr |-> 0, result |-> Pending]

InitFraming ==
    /\ LayerIdle
    /\ active_transition = NoTransition
    /\ lastRender = NoRender
    /\ ComponentsIdle
    /\ call \in {FramingCall("round_trip", f, Recv("OK", <<>>, FALSE, FALSE, <<>>)) : f \in Frames(MaxHeaderLen, MaxPayloadLen)}
                  \cup {FramingCall("read_framed", TabMessageFrame(<<>>, NoPayload, <<>>), r) :
                          r \in Recvs(MaxRecvLen)}

\* the sender serializes the frame
Serialize ==
    /\ call.fn = "round_trip" /\ call.pc = "start"
    /\ call' = [call EXCEPT !.pc = "serialized", !.bytes = serialize(call.frame)]
    /\ UNCHANGED <<layer_vars, active_transition, lastRender, component_vars>>

\* the receiver parses the serialized bytes, with the fds of the frame
ParseFromBytes ==
    /\ call.fn = "round_trip" /\ call.pc = "serialized"
    /\ call' = [call EXCEPT !.pc = "done",
                            !.result = parse_from_bytes(call.bytes, call.frame.fds)]
    /\ UNCHANGED <<layer_vars, active_transition, lastRender, component_vars>>

\* recvmsg fails with EINTR: the loop of read_framed calls it again
RecvInterrupted ==
    /\ call.fn = "read_framed" /\ call.pc = "start"
    /\ call.eintr < MaxEintr
    /\ call' = [call EXCEPT !.eintr = call.eintr + 1]
    /\ UNCHANGED <<layer_vars, active_transition, lastRender, component_vars>>

\* recvmsg returns something else than EINTR: read_framed returns
ReadFramed ==
    /\ call.fn = "read_framed" /\ call.pc = "start"
    /\ call' = [call EXCEPT !.pc = "done", !.result = read_framed(call.recv)]
    /\ UNCHANGED <<layer_vars, active_transition, lastRender, component_vars>>

NextFraming ==
    \/ Serialize
    \/ ParseFromBytes
    \/ RecvInterrupted
    \/ ReadFramed

SpecFraming == InitFraming /\ [][NextFraming]_vars

\* ------------------------------------------------------------------------
\* Transitions: resolve_transition (shift/src/animations/mod.rs)
\* ------------------------------------------------------------------------

MaxUpper == 2     \* most capital letters of a name that is not all capitals

\* a name is a sequence of characters, each a string of length one; "U017F" is
\* the character LATIN SMALL LETTER LONG S, which is not ASCII
Alphabet == <<"a", "b", "c", "d", "e", "f", "g", "h", "i", "j", "k", "l", "m",
              "n", "o", "p", "q", "r", "s", "t", "u", "v", "w", "x", "y", "z">>
Capitals == <<"A", "B", "C", "D", "E", "F", "G", "H", "I", "J", "K", "L", "M",
              "N", "O", "P", "Q", "R", "S", "T", "U", "V", "W", "X", "Y", "Z">>

\* u8::to_ascii_uppercase, to write the names of the model
to_ascii_uppercase(c) ==
    IF \E i \in 1..Len(Alphabet) : Alphabet[i] = c
    THEN Capitals[CHOOSE i \in 1..Len(Alphabet) : Alphabet[i] = c]
    ELSE c

\* no character is changed
char_unchanged(c) == c

\* u8::to_ascii_lowercase
char_to_ascii_lowercase(c) ==
    IF \E i \in 1..Len(Capitals) : Capitals[i] = c
    THEN Alphabet[CHOOSE i \in 1..Len(Capitals) : Capitals[i] = c]
    ELSE c

\* str::to_ascii_lowercase
to_ascii_lowercase(name) == [i \in 1..Len(name) |-> char_to_ascii_lowercase(name[i])]

SLIDELEFT == <<"s", "l", "i", "d", "e", "l", "e", "f", "t">>
SLIDERIGHT == <<"s", "l", "i", "d", "e", "r", "i", "g", "h", "t">>
SLIDEUP == <<"s", "l", "i", "d", "e", "u", "p">>
SLIDEDOWN == <<"s", "l", "i", "d", "e", "d", "o", "w", "n">>
BLUR == <<"b", "l", "u", "r">>

resolve_transition(name) ==
    LET lower == to_ascii_lowercase(name)
    IN  IF lower = SLIDELEFT THEN "SLIDE_LEFT_TRANSITION"
        ELSE IF lower = SLIDERIGHT THEN "SLIDE_RIGHT_TRANSITION"
        ELSE IF lower = SLIDEUP THEN "SLIDE_UP_TRANSITION"
        ELSE IF lower = SLIDEDOWN THEN "SLIDE_DOWN_TRANSITION"
        ELSE IF lower = BLUR THEN "BLUR_TRANSITION"
        ELSE "CROSS_FADE_TRANSITION"

\* the words the names of the model are spelled from
Words ==
    {SLIDELEFT, SLIDERIGHT, SLIDEUP, SLIDEDOWN, BLUR,
     <<"c", "r", "o", "s", "s", "f", "a", "d", "e">>,
     <<"s", "l", "i", "d", "e">>,
     <<"b", "l", "u", "r", "s">>,
     <<"s", "l", "i", "d", "e", " ", "u", "p">>,
     <<"U017F", "l", "i", "d", "e", "u", "p">>,
     <<"b", "1", "u", "r">>,
     <<>>}

\* word w with the letters at the positions of caps written as capitals
Spelled(w, caps) == [i \in 1..Len(w) |-> IF i \in caps THEN to_ascii_uppercase(w[i]) ELSE w[i]]

NamesWith(n) ==
    UNION {{Spelled(w, caps) :
              caps \in {c \in SUBSET (1..Len(w)) : Cardinality(c) <= n \/ c = 1..Len(w)}} :
           w \in Words}

AnimationCall(name, other) ==
    [fn |-> "resolve_transition", pc |-> "start", name |-> name, other |-> other,
     result |-> "none", other_result |-> "none"]

InitAnimations ==
    /\ LayerIdle
    /\ active_transition = NoTransition
    /\ lastRender = NoRender
    /\ ComponentsIdle
    /\ call \in {AnimationCall(name, other) : name \in NamesWith(MaxUpper), other \in NamesWith(1)}

\* resolve_transition(name)
ResolveTransition ==
    /\ call.fn = "resolve_transition" /\ call.pc = "start"
    /\ call' = [call EXCEPT !.pc = "resolved", !.result = resolve_transition(call.name)]
    /\ UNCHANGED <<layer_vars, active_transition, lastRender, component_vars>>

\* resolve_transition(other), the next call
ResolveOther ==
    /\ call.fn = "resolve_transition" /\ call.pc = "resolved"
    /\ call' = [call EXCEPT !.pc = "done", !.other_result = resolve_transition(call.other)]
    /\ UNCHANGED <<layer_vars, active_transition, lastRender, component_vars>>

NextAnimations ==
    \/ ResolveTransition
    \/ ResolveOther

SpecAnimations == InitAnimations /\ [][NextAnimations]_vars

\* ------------------------------------------------------------------------
\* Frame presenter: FramePresenter (shift/src/presenter.rs)
\* ------------------------------------------------------------------------

MaxProgress == 3      \* largest progress of a snapshot's transition
ProgressOne == 3      \* the progress 1.0, in the unit of the model (thirds)

PresenterMonitors == {"m1"}

\* ActiveTransition::new: the timeline of the transition, not yet advanced
timeline(transition) == 0

\* AnimationStateTracker::update: the timeline advances by delta
update(state, delta) == state + delta

ActiveTransition(transition, state, last_progress) ==
    [some |-> TRUE, transition |-> transition, state |-> state,
     last_progress |-> last_progress]

ActiveTransition_new(transition) == ActiveTransition(transition, timeline(transition), 0)

\* every transition is taken for another one
is_same_transition_never(existing, other) == FALSE

\* std::ptr::eq on the statics of animations/mod.rs
is_same_transition(existing, other) == existing.transition = other

\* ActiveTransition::frame
frame(active, progress) ==
    ActiveTransition(active.transition,
                     update(active.state, progress - active.last_progress),
                     progress)

\* Option<RenderTransition>
RenderTransition(progress, animation, previous_session_id) ==
    [some |-> TRUE, progress |-> progress, animation |-> animation,
     previous_session_id |-> previous_session_id]
NoRenderTransition ==
    [some |-> FALSE, progress |-> 0, animation |-> <<>>, previous_session_id |-> None]

\* a transition is never taken for finished
Finished_never(progress) == FALSE

\* trans.progress >= 1.0
Finished(progress) == progress >= ProgressOne

\* the presenter's transition state after transition_context, whether a
\* TransitionContext is returned, and whether ActiveTransition::new was called
transition_context(active, transition) ==
    IF ~transition.some THEN [active |-> NoTransition, ctx |-> FALSE, reset |-> FALSE]
    ELSE IF Finished(transition.progress)
    THEN [active |-> NoTransition, ctx |-> FALSE, reset |-> FALSE]
    ELSE LET resolved == resolve_transition(transition.animation)
             needs_reset == IF active.some THEN ~is_same_transition(active, resolved)
                            ELSE TRUE
             existing == IF needs_reset THEN ActiveTransition_new(resolved) ELSE active
         IN  [active |-> frame(existing, transition.progress), ctx |-> TRUE,
              reset |-> needs_reset]

\* push_presented
push_presented(vec, id) ==
    IF id = None \/ \E i \in 1..Len(vec) : vec[i] = id THEN vec ELSE Append(vec, id)

\* what render_single_monitor draws and the sessions it returns
Drawn(what, presented) == [drawn |-> what, presented |-> presented]

render_single_monitor(snapshot_monitor, transition, ctx, active_session_id) ==
    LET previous_session_id == IF transition.some THEN transition.previous_session_id
                               ELSE None
    IN  IF transition.some /\ ctx
        THEN IF /\ snapshot_monitor.previous_texture
                /\ snapshot_monitor.active_texture
                /\ transition.previous_session_id # None
                /\ active_session_id # None
             THEN Drawn("transition",
                        push_presented(push_presented(<<>>, transition.previous_session_id),
                                       active_session_id))
             ELSE Drawn("clear", <<>>)
        ELSE IF snapshot_monitor.active_texture /\ active_session_id # None
        THEN Drawn("active", push_presented(<<>>, active_session_id))
        ELSE IF snapshot_monitor.previous_texture /\ previous_session_id # None
        THEN Drawn("previous", push_presented(<<>>, previous_session_id))
        ELSE Drawn("clear", <<>>)

\* MonitorRenderSnapshot and the monitor of easydrm it is drawn on
MonitorInput(in_snapshot, active_texture, previous_texture, can_render, make_current) ==
    [in_snapshot |-> in_snapshot, active_texture |-> active_texture,
     previous_texture |-> previous_texture, can_render |-> can_render,
     make_current |-> make_current]

MonitorInputs ==
    {MonitorInput(TRUE, a, p, TRUE, TRUE) : a \in BOOLEAN, p \in BOOLEAN}
      \cup {MonitorInput(FALSE, FALSE, FALSE, TRUE, TRUE),
            MonitorInput(TRUE, TRUE, TRUE, FALSE, TRUE),
            MonitorInput(TRUE, TRUE, TRUE, TRUE, FALSE)}

\* the animation names of the snapshots
AnimationNames == {Spelled(SLIDEUP, {1, 6}), BLUR}

RenderTransitions ==
    {NoRenderTransition}
      \cup {RenderTransition(progress, animation, previous_session_id) :
              progress \in 0..MaxProgress, animation \in AnimationNames,
              previous_session_id \in {None, "s1"}}

\* RenderSnapshot, with the state of the monitors of easydrm
RenderSnapshot(monitors, transition, active_session_id) ==
    [monitors |-> monitors, transition |-> transition,
     active_session_id |-> active_session_id]

RenderSnapshots ==
    {RenderSnapshot(monitors, transition, active_session_id) :
        monitors \in [PresenterMonitors -> MonitorInputs],
        transition \in RenderTransitions,
        active_session_id \in {None, "s1", "s2"}}

\* the record of a render call: its snapshot, the transition state before it,
\* what each rendered monitor drew and reported, and the result
Rendered(snapshot, before, reset, monitors, result) ==
    [called |-> TRUE, snapshot |-> snapshot, before |-> before, reset |-> reset,
     monitors |-> monitors, result |-> result]

InitPresenter ==
    /\ LayerIdle
    /\ call = NoCall
    /\ active_transition = NoTransition
    /\ lastRender = NoRender
    /\ ComponentsIdle

\* FramePresenter::render
Render(snapshot) ==
    LET context == transition_context(active_transition, snapshot.transition)
        rendered == {m \in PresenterMonitors :
                        /\ snapshot.monitors[m].can_render
                        /\ snapshot.monitors[m].in_snapshot}
        failed == \E m \in rendered : ~snapshot.monitors[m].make_current
    IN  /\ active_transition' = context.active
        /\ lastRender' =
             Rendered(snapshot, active_transition, context.reset,
                      [m \in PresenterMonitors |->
                         IF m \in rendered /\ ~failed
                         THEN render_single_monitor(snapshot.monitors[m], snapshot.transition,
                                                    context.ctx, snapshot.active_session_id)
                         ELSE Drawn("skipped", <<>>)],
                      IF failed THEN "MakeCurrent" ELSE "Ok")
        /\ UNCHANGED <<layer_vars, call, component_vars>>

NextPresenter == \E snapshot \in RenderSnapshots : Render(snapshot)

SpecPresenter == InitPresenter /\ [][NextPresenter]_vars

\* ------------------------------------------------------------------------
\* Surface cache: MonitorRenderState (shift/src/rendering_layer/mod.rs)
\* ------------------------------------------------------------------------

MaxFbo == 2       \* largest framebuffer object number
MaxSide == 2      \* largest width and height of a monitor

FBOs == 0..MaxFbo
Sizes == (1..MaxSide) \X (1..MaxSide)

\* HashMap<i32, skia::Surface>: the size each cached surface was created with
NoSurfaces == [fbo \in {} |-> <<0, 0>>]

\* the last call of ensure_surface_target: arguments, result, and the cache
\* and the size recorded before it
EnsureCall(width, height, fbo, ok, size_changed, before) ==
    [called |-> TRUE, width |-> width, height |-> height, fbo |-> fbo, ok |-> ok,
     size_changed |-> size_changed, before |-> before]
NoEnsureCall ==
    [called |-> FALSE, width |-> 0, height |-> 0, fbo |-> 0, ok |-> FALSE,
     size_changed |-> FALSE, before |-> {}]

MonitorRenderState(surfaces_by_fbo, width, height, target_fbo, last) ==
    [used |-> TRUE, surfaces_by_fbo |-> surfaces_by_fbo, width |-> width,
     height |-> height, target_fbo |-> target_fbo, last |-> last]

\* MonitorRenderState::new
InitSurfaces ==
    /\ LayerIdle
    /\ call = NoCall
    /\ active_transition = NoTransition
    /\ lastRender = NoRender
    /\ cursor_sync = NoComponent
    /\ registry = NoComponent
    /\ render_state \in {MonitorRenderState(NoSurfaces, size[1], size[2], target_fbo, NoEnsureCall) :
                           size \in Sizes, target_fbo \in FBOs}

\* the cache is kept through a resize
Evicted_never(surfaces, size_changed) == surfaces

\* self.surfaces_by_fbo.clear() if the size changed
Evicted(surfaces, size_changed) == IF size_changed THEN NoSurfaces ELSE surfaces

\* surfaces_by_fbo.insert(fbo, skia_surface_for_fbo(gr, width, height, fbo))
Inserted(surfaces, fbo, width, height) ==
    [f \in DOMAIN surfaces \cup {fbo} |-> IF f = fbo THEN <<width, height>> ELSE surfaces[f]]

\* ensure_surface_target returning Ok: the surface is cached or is created
EnsureSurfaceTarget(width, height, fbo) ==
    LET size_changed == render_state.width # width \/ render_state.height # height
        kept == Evicted(render_state.surfaces_by_fbo, size_changed)
    IN  /\ render_state.used
        /\ render_state' =
             MonitorRenderState(
                IF fbo \notin DOMAIN kept THEN Inserted(kept, fbo, width, height) ELSE kept,
                IF size_changed THEN width ELSE render_state.width,
                IF size_changed THEN height ELSE render_state.height,
                fbo,
                EnsureCall(width, height, fbo, TRUE, size_changed,
                           DOMAIN render_state.surfaces_by_fbo))
        /\ UNCHANGED <<layer_vars, call, active_transition, lastRender, cursor_sync, registry>>

\* ensure_surface_target returning Err: skia_surface_for_fbo fails
EnsureSurfaceTargetFails(width, height, fbo) ==
    LET size_changed == render_state.width # width \/ render_state.height # height
        kept == Evicted(render_state.surfaces_by_fbo, size_changed)
    IN  /\ render_state.used
        /\ fbo \notin DOMAIN kept
        /\ render_state' =
             MonitorRenderState(
                kept,
                IF size_changed THEN width ELSE render_state.width,
                IF size_changed THEN height ELSE render_state.height,
                fbo,
                EnsureCall(width, height, fbo, FALSE, size_changed,
                           DOMAIN render_state.surfaces_by_fbo))
        /\ UNCHANGED <<layer_vars, call, active_transition, lastRender, cursor_sync, registry>>

NextSurfaces ==
    \/ \E size \in Sizes, fbo \in FBOs : EnsureSurfaceTarget(size[1], size[2], fbo)
    \/ \E size \in Sizes, fbo \in FBOs : EnsureSurfaceTargetFails(size[1], size[2], fbo)

SpecSurfaces == InitSurfaces /\ [][NextSurfaces]_vars

\* ---------------------------------------------------------------------------
\* Hardware cursor synchronisation (cursor_sync.rs)
\* ---------------------------------------------------------------------------

MaxHash == 1
MaxCursorPos == 1

\* i32::MIN, the position of the default entry
I32_MIN == -2147483647 - 1

CursorMonitor == "m1"
Hashes == 0..MaxHash
CursorXs == 0..MaxCursorPos
CursorYs == {0}

\* what the server returns from get_cursor: image_hash, position_x, position_y
Cursors == [image_hash : Hashes, position_x : CursorXs, position_y : CursorYs]

\* (0, i32::MIN, i32::MIN), inserted when the key has no entry
DefaultEntry == <<0, I32_MIN, I32_MIN>>

NoSync == [kind |-> "none", session |-> None, image_hash |-> 0, handle |-> FALSE,
           uploaded |-> FALSE]

SyncOf(kind, session, image_hash, handle, uploaded) ==
    [kind |-> kind, session |-> session, image_hash |-> image_hash, handle |-> handle,
     uploaded |-> uploaded]

\* state: the HashMap of CursorSync; plane_image, plane_position: what the
\* cursor plane of the monitor holds (empty set: nothing set); last: the
\* last sync; failed: some set_cursor_buffer or remove_cursor returned Err
CursorSync(state, plane_image, plane_position, last, failed) ==
    [used |-> TRUE, state |-> state, plane_image |-> plane_image,
     plane_position |-> plane_position, last |-> last, failed |-> failed]

InitCursor ==
    /\ LayerIdle
    /\ call = NoCall
    /\ active_transition = NoTransition
    /\ lastRender = NoRender
    /\ render_state = NoComponent
    /\ registry = NoComponent
    /\ cursor_sync = CursorSync(<<>>, {}, {}, NoSync, FALSE)

\* state_entry.is_none_or(|entry| current_hash != entry.0)
HashChanged(state_entry, cursor) ==
    state_entry = {} \/ \E entry \in state_entry : cursor.image_hash # entry[1]

\* state_entry.is_none_or(|entry| current_x != entry.1 || current_y != entry.2)
PositionChanged(state_entry, cursor) ==
    state_entry = {} \/ \E entry \in state_entry :
                           cursor.position_x # entry[2] \/ cursor.position_y # entry[3]

\* self.state.insert(key, value)
StateInsert(state, key, value) ==
    [k \in DOMAIN state \cup {key} |-> IF k = key THEN value ELSE state[k]]

\* one iteration of the monitor loop of sync: the active session has a cursor
\* on the monitor. handle: the monitor is found in easydrm; buffer_ok and
\* position_ok: the results of set_cursor_buffer and set_cursor_position
SyncCursor(session_id, cursor, handle, buffer_ok, position_ok) ==
    LET state == cursor_sync.state
        key == <<CursorMonitor, session_id>>
        state_entry == IF key \in DOMAIN state THEN {state[key]} ELSE {}
        defaulted == IF state_entry = {} THEN StateInsert(state, key, DefaultEntry) ELSE state
        upload == handle /\ HashChanged(state_entry, cursor)
        move == handle /\ PositionChanged(state_entry, cursor)
    IN  /\ cursor_sync.used
        /\ upload \/ buffer_ok
        /\ move \/ position_ok
        /\ cursor_sync' =
             CursorSync(
                IF handle
                THEN StateInsert(defaulted, key,
                                 <<cursor.image_hash, cursor.position_x, cursor.position_y>>)
                ELSE defaulted,
                IF upload /\ buffer_ok THEN {cursor.image_hash} ELSE cursor_sync.plane_image,
                IF move /\ position_ok
                THEN {<<cursor.position_x, cursor.position_y>>}
                ELSE cursor_sync.plane_position,
                SyncOf("cursor", session_id, cursor.image_hash, handle, upload),
                cursor_sync.failed \/ (upload /\ ~buffer_ok))
        /\ UNCHANGED <<layer_vars, call, active_transition, lastRender, render_state, registry>>

\* one iteration of the monitor loop of sync: the active session has no cursor
\* on the monitor. remove_ok: the result of remove_cursor
SyncNoCursor(session_id, handle, remove_ok) ==
    LET state == cursor_sync.state
        key == <<CursorMonitor, session_id>>
        removed == key \in DOMAIN state
        hide == removed /\ handle
    IN  /\ cursor_sync.used
        /\ hide \/ remove_ok
        /\ cursor_sync' =
             CursorSync(
                MapRemove(state, key),
                IF hide /\ remove_ok THEN {} ELSE cursor_sync.plane_image,
                cursor_sync.plane_position,
                SyncOf("nocursor", session_id, 0, handle, FALSE),
                cursor_sync.failed \/ (hide /\ ~remove_ok))
        /\ UNCHANGED <<layer_vars, call, active_transition, lastRender, render_state, registry>>

\* sync without an active session: every monitor is skipped
SyncNoSession ==
    /\ cursor_sync.used
    /\ cursor_sync' = [cursor_sync EXCEPT !.last = SyncOf("nosession", None, 0, FALSE, FALSE)]
    /\ UNCHANGED <<layer_vars, call, active_transition, lastRender, render_state, registry>>

NextCursor ==
    \/ \E session_id \in Sessions, cursor \in Cursors, handle, buffer_ok, position_ok \in BOOLEAN :
          SyncCursor(session_id, cursor, handle, buffer_ok, position_ok)
    \/ \E session_id \in Sessions, handle, remove_ok \in BOOLEAN :
          SyncNoCursor(session_id, handle, remove_ok)
    \/ SyncNoSession

SpecCursor == InitCursor /\ [][NextCursor]_vars

\* ---------------------------------------------------------------------------
\* Session registry (tab-server/src/session.rs)
\* ---------------------------------------------------------------------------

MaxSessionId == 3

\* session ids, ordered as the id strings are
SessionIds == 1..MaxSessionId
RegistryTokens == {"t1"}
SessionLifecycle == {"Pending", "Loading", "Occupied", "Consumed"}
CycleDirection == {"Forward", "Backward"}

\* Option<String> of a session id: {} is None, {id} is Some(id)
OptionIds == {{}} \cup {{id} : id \in SessionIds}

NoRegistryCall ==
    [fn |-> "new", token |-> None, ids |-> {}, direction |-> None, result |-> {},
     again |-> FALSE, ever |-> FALSE]

AuthenticateCall(token, result, again, ever) ==
    [fn |-> "authenticate_with_token", token |-> token, ids |-> {}, direction |-> None,
     result |-> result, again |-> again, ever |-> ever]

RegistryCall(fn, token, ids, direction, result) ==
    [fn |-> fn, token |-> token, ids |-> ids, direction |-> direction, result |-> result,
     again |-> FALSE, ever |-> FALSE]

\* sessions: id -> state of the session (token, role and display_name are
\* stored with it and read by none of the operations below); token_index:
\* token -> id; last: the last call; authenticated: the tokens for which
\* authenticate_with_token has returned a session id; spent: the tokens passed
\* to authenticate_with_token and not inserted again since
SessionRegistry(sessions, token_index, last, authenticated, spent) ==
    [used |-> TRUE, sessions |-> sessions, token_index |-> token_index, last |-> last,
     authenticated |-> authenticated, spent |-> spent]

InitRegistry ==
    /\ LayerIdle
    /\ call = NoCall
    /\ active_transition = NoTransition
    /\ lastRender = NoRender
    /\ render_state = NoComponent
    /\ cursor_sync = NoComponent
    /\ registry = SessionRegistry(<<>>, <<>>, NoRegistryCall, {}, {})

\* insert_pending(id, token, role, display_name)
InsertPending(id, token) ==
    /\ registry.used
    /\ registry' =
         SessionRegistry(MapInsert(registry.sessions, id, "Pending"),
                         MapInsert(registry.token_index, token, id),
                         RegistryCall("insert_pending", token, {id}, None, {}),
                         registry.authenticated,
                         registry.spent \ {token})
    /\ UNCHANGED <<layer_vars, call, active_transition, lastRender, render_state, cursor_sync>>

\* mutant: the token stays in the index
token_index_kept(token_index, token) == token_index

\* self.token_index.remove(token)
token_index_remove(token_index, token) == MapRemove(token_index, token)

\* authenticate_with_token: the registry after the call and the value returned
authenticate_with_token(sessions, token_index, token) ==
    IF token \notin DOMAIN token_index
    THEN [sessions |-> sessions, token_index |-> token_index, result |-> {}]
    ELSE LET session_id == token_index[token]
             removed == token_index_remove(token_index, token)
         IN  IF session_id \notin DOMAIN sessions
             THEN [sessions |-> sessions, token_index |-> removed, result |-> {}]
             ELSE IF sessions[session_id] = "Pending"
                  THEN [sessions |-> [sessions EXCEPT ![session_id] = "Loading"],
                        token_index |-> removed, result |-> {session_id}]
                  ELSE [sessions |-> sessions, token_index |-> removed, result |-> {}]

AuthenticateWithToken(token) ==
    LET after == authenticate_with_token(registry.sessions, registry.token_index, token)
    IN  /\ registry.used
        /\ registry' =
             SessionRegistry(after.sessions, after.token_index,
                             AuthenticateCall(token, after.result, token \in registry.spent,
                                              token \in registry.authenticated),
                             registry.authenticated
                                \cup (IF after.result # {} THEN {token} ELSE {}),
                             registry.spent \cup {token})
        /\ UNCHANGED <<layer_vars, call, active_transition, lastRender, render_state, cursor_sync>>

\* set_state(session_id, new_state); mark_consumed is set_state(.., Consumed)
SetState(session_id, new_state) ==
    /\ registry.used
    /\ registry' =
         [registry EXCEPT
            !.sessions = IF session_id \in DOMAIN @
                         THEN [@ EXCEPT ![session_id] = new_state] ELSE @,
            !.last = RegistryCall("set_state", None, {session_id}, None,
                                  {session_id} \cap DOMAIN registry.sessions)]
    /\ UNCHANGED <<layer_vars, call, active_transition, lastRender, render_state, cursor_sync>>

\* the sessions that pass the filter of cycle_session
Eligible(sessions) == {id \in DOMAIN sessions : sessions[id] \in {"Loading", "Occupied"}}

\* ids.sort_by(|a, b| a.id.cmp(&b.id))
RECURSIVE SortedIds(_)
SortedIds(S) ==
    IF S = {} THEN <<>>
    ELSE LET least == CHOOSE a \in S : \A b \in S : a <= b
         IN  <<least>> \o SortedIds(S \ {least})

\* ids.iter().position(|s| s.id == curr), counted from 0; {} is None
Position(ids, curr) ==
    LET found == {i \in 1..Len(ids) : ids[i] = curr}
    IN  IF found = {} THEN {} ELSE {(CHOOSE i \in found : \A j \in found : i <= j) - 1}

\* mutant: every direction steps forward
next_idx_forward(idx, len, direction) == (idx + 1) % len

\* match direction { Forward => (idx + 1) % len, Backward => (idx + len - 1) % len }
next_idx(idx, len, direction) ==
    IF direction = "Forward" THEN (idx + 1) % len ELSE (idx + len - 1) % len

\* cycle_session(current, direction)
cycle_session(sessions, current, direction) ==
    LET ids == SortedIds(Eligible(sessions))
        at == UNION {Position(ids, curr) : curr \in current}
        idx == IF at = {} THEN 0 ELSE CHOOSE i \in at : TRUE
    IN  IF ids = <<>> THEN {}
        ELSE {ids[next_idx(idx, Len(ids), direction) + 1]}

CycleSession(current, direction) ==
    /\ registry.used
    /\ registry' =
         [registry EXCEPT
            !.last = RegistryCall("cycle_session", None, current, direction,
                                  cycle_session(registry.sessions, current, direction))]
    /\ UNCHANGED <<layer_vars, call, active_transition, lastRender, render_state, cursor_sync>>

NextRegistry ==
    \/ \E id \in SessionIds, token \in RegistryTokens : InsertPending(id, token)
    \/ \E token \in RegistryTokens : AuthenticateWithToken(token)
    \/ \E id \in SessionIds, new_state \in SessionLifecycle : SetState(id, new_state)
    \/ \E current \in OptionIds, direction \in CycleDirection : CycleSession(current, direction)

SpecRegistry == InitRegistry /\ [][NextRegistry]_vars

\* ------------------------------------------------------------------------
\* Properties of the rendering layer
\* ------------------------------------------------------------------------

EventIdx == 1..Len(lastEvents)
EventKey(e) == SlotKey(e.m, e.s, e.b)
ConsumedKeys(evs) == {EventKey(evs[i]) : i \in {j \in 1..Len(evs) : evs[j].type = "BufferConsumed"}}
FrameDone(op) == op.kind = "Frame" /\ op.res = "ok"
SwapAccepted(op) == op.kind = "SwapBuffers" /\ op.res = "accepted"
OpKey(op) == SlotKey(op.m, op.s, op.b)
NoDup(q) == \A i, j \in 1..Len(q) : i # j => q[i] # q[j]

C2_AckBeforeConsume ==
    \A i \in EventIdx :
        lastEvents[i].type = "BufferConsumed" =>
            /\ EventKey(lastEvents[i]) \in acked
            /\ \A j \in EventIdx : lastEvents[j].type # "BufferRequestAck"

\* a BufferConsumed has just been emitted for an acknowledged slot
C2_Witness ==
    \E i \in EventIdx :
        lastEvents[i].type = "BufferConsumed" /\ EventKey(lastEvents[i]) \in acked

\* C3 as stated: every accepted SwapBuffers has exactly one BufferConsumed.  At
\* the end of a frame iteration the accepted SwapBuffers of a pair with no
\* pending buffer and the BufferConsumed events of that pair are equal in number.
C3_Original ==
    FrameDone(lastOp) =>
        \A p \in DOMAIN monitor_state :
            monitor_state[p].pending_buffer = None => unmatched[p] = 0

OwedCount(p) == Cardinality({k \in PairKeys(p) : owed[k] > 0})
Presented(p) ==
    IF p \in DOMAIN monitor_state
       /\ (monitor_state[p].current_buffer # None \/ monitor_state[p].pending_buffer # None)
    THEN 1 ELSE 0

\* C3 (amended): a displaced buffer is owed exactly one BufferConsumed, which
\* the next completed frame iteration emits; displacements of one buffer between
\* two frame iterations share it; the accepted SwapBuffers of a pair outnumber
\* its BufferConsumed events by at least one while a buffer is presented or
\* pending (the first SwapBuffers displaces nothing).
C3_NoDoubleRelease ==
    /\ NoDup(deferred_releases)
    /\ \A k \in Keys : owed[k] = IF k \in SeqSet(deferred_releases) THEN 1 ELSE 0
    /\ \A p \in Monitors \X Sessions : unmatched[p] >= OwedCount(p) + Presented(p)

\* a frame iteration consumed the buffer displaced by the second of two swaps
C3_Witness ==
    /\ FrameDone(lastOp)
    /\ \E k \in ConsumedKeys(lastEvents) :
          /\ unmatched[<<k[1], k[2]>>] = 1
          /\ <<k[1], k[2]>> \in DOMAIN monitor_state
          /\ monitor_state[<<k[1], k[2]>>].current_buffer \notin {None, k[3]}

\* C4: handling a fence event that was queued before its session was removed
\* changes no slot, ownership, surface-state or deferred-release entry and emits
\* no BufferConsumed.
C4_FenceSuppression ==
    [][(lastOp'.kind = "HandleFenceEvent" /\ lastOp'.removed) =>
          /\ UNCHANGED <<slots, slot_ownership, monitor_state, deferred_releases>>
          /\ ConsumedKeys(lastEvents') = {}]_vars

\* C5 as stated: no event of any kind references a monitor that is offline
\* (MonitorOffline emitted, no MonitorOnline since), except that MonitorOffline.
C5_Original ==
    \A i \in EventIdx : \A m \in offlineSince :
        RefersTo(lastEvents[i], m) => lastEvents[i].type = "MonitorOffline"

\* C5 (amended): while a monitor is offline no PageFlip, BufferRequestAck or
\* BufferConsumed references it; a SwapBuffers naming it is answered by
\* BufferRequestRejected with reason unknown_monitor.
C5_HotUnplugPurity ==
    \A i \in EventIdx : \A m \in offlineSince :
        RefersTo(lastEvents[i], m) =>
            \/ lastEvents[i].type = "MonitorOffline"
            \/ /\ lastEvents[i].type = "BufferRequestRejected"
               /\ lastEvents[i].reason = "unknown_monitor"

\* a SwapBuffers for an unplugged monitor that had slots has been rejected
C5_Witness ==
    /\ lastOp.kind = "SwapBuffers"
    /\ lastOp.m \in offlineSince
    /\ lastEvents = <<BufferRequestRejected(OpKey(lastOp), "unknown_monitor")>>
    /\ OpKey(lastOp) \in acked

C7_Original ==
    [][(/\ SwapAccepted(lastOp') /\ lastOp'.fence
        /\ budget' = budget - 1
        /\ OpKey(lastOp') \in DOMAIN slot_ownership
        /\ slot_ownership[OpKey(lastOp')] = "Client") =>
          slot_ownership'[OpKey(lastOp')] = "Client"]_vars

\* C7 (amended): an accepted SwapBuffers makes Shift the owner of its slot at
\* once, with or without an acquire fence; the signal of the fence and the
\* handling of its event leave the ownership table unchanged.
C7_OwnerOnAccept ==
    [][/\ (SwapAccepted(lastOp') /\ budget' = budget - 1) =>
             /\ OpKey(lastOp') \in DOMAIN slot_ownership'
             /\ slot_ownership'[OpKey(lastOp')] = "Shift"
       /\ lastOp'.kind \in {"FenceSignal", "HandleFenceEvent"} =>
             UNCHANGED slot_ownership]_vars

\* an accepted SwapBuffers with a fence that has not signalled: owner is Shift
C7_Witness ==
    /\ SwapAccepted(lastOp) /\ lastOp.fence
    /\ slot_ownership[OpKey(lastOp)] = "Shift"
    /\ OpKey(lastOp) \in DOMAIN fence_tasks /\ fence_tasks[OpKey(lastOp)]
    /\ monitor_state[<<lastOp.m, lastOp.s>>].pending_buffer = lastOp.b
    /\ monitor_state[<<lastOp.m, lastOp.s>>].current_buffer = None

\* the buffers of (m, s) other than b that are current or pending
Others(ms, m, s, b, fields) ==
    IF <<m, s>> \notin DOMAIN ms THEN {}
    ELSE {SlotKey(m, s, x) : x \in
            ((IF "current" \in fields THEN {ms[<<m, s>>].current_buffer} ELSE {})
             \cup (IF "pending" \in fields THEN {ms[<<m, s>>].pending_buffer} ELSE {}))
            \ {None, b}}

\* C8: an accepted SwapBuffers(m, s, b) without fence leaves current = b and
\* pending = none, leaves no fence task for (m, s, b), emits BufferRequestAck
\* and queues the previous current buffer iff it existed and differs from b
\* (nothing else is queued but a displaced pending buffer).
C8_ImmediatePromotion ==
    [][(/\ SwapAccepted(lastOp') /\ ~lastOp'.fence
        /\ budget' = budget - 1) =>
          LET m == lastOp'.m
              s == lastOp'.s
              b == lastOp'.b
              added == SeqSet(deferred_releases') \ SeqSet(deferred_releases)
          IN /\ monitor_state'[<<m, s>>] = [current_buffer |-> b, pending_buffer |-> None]
             /\ SlotKey(m, s, b) \notin DOMAIN fence_tasks'
             /\ lastEvents' = <<BufferRequestAck(SlotKey(m, s, b))>>
             /\ Others(monitor_state, m, s, b, {"current"}) \subseteq SeqSet(deferred_releases')
             /\ added \subseteq Others(monitor_state, m, s, b, {"current", "pending"})
             /\ SeqSet(deferred_releases) \subseteq SeqSet(deferred_releases')]_vars

\* a fence-less SwapBuffers has displaced and queued the previous current buffer
C8_Witness ==
    /\ SwapAccepted(lastOp) /\ ~lastOp.fence
    /\ monitor_state[<<lastOp.m, lastOp.s>>].current_buffer = lastOp.b
    /\ \E k \in SeqSet(deferred_releases) :
          k[1] = lastOp.m /\ k[2] = lastOp.s /\ k[3] # lastOp.b
    /\ unmatched[<<lastOp.m, lastOp.s>>] = 2

\* C9: a SwapBuffers with fence accepted while another slot of the pair is
\* pending cancels that slot's fence task, queues it and makes the new slot
\* pending; a fence event for the pending slot makes it current and clears
\* pending; a completed frame iteration emits BufferConsumed for every queued
\* release.
C9_SwapWhilePending ==
    [][/\ (SwapAccepted(lastOp') /\ lastOp'.fence /\ budget' = budget - 1) =>
             \A k \in Others(monitor_state, lastOp'.m, lastOp'.s, lastOp'.b, {"pending"}) :
                 /\ k \notin DOMAIN fence_tasks'
                 /\ orphan_tasks' = orphan_tasks
                 /\ k \in SeqSet(deferred_releases')
                 /\ monitor_state'[<<lastOp'.m, lastOp'.s>>].pending_buffer = lastOp'.b
       /\ (/\ lastOp'.kind = "HandleFenceEvent"
           /\ <<lastOp'.m, lastOp'.s>> \in DOMAIN monitor_state
           /\ monitor_state[<<lastOp'.m, lastOp'.s>>].pending_buffer = lastOp'.b) =>
             monitor_state'[<<lastOp'.m, lastOp'.s>>] =
                 [current_buffer |-> lastOp'.b, pending_buffer |-> None]
       /\ (FrameDone(lastOp') /\ pc = "frame") =>
             /\ ConsumedKeys(lastEvents') = SeqSet(deferred_releases)
             /\ deferred_releases' = <<>>]_vars

\* the second fenced SwapBuffers has displaced the pending slot, never current
C9_Witness ==
    /\ SwapAccepted(lastOp) /\ lastOp.fence
    /\ monitor_state[<<lastOp.m, lastOp.s>>].current_buffer = None
    /\ monitor_state[<<lastOp.m, lastOp.s>>].pending_buffer = lastOp.b
    /\ \E k \in SeqSet(deferred_releases) :
          /\ k[1] = lastOp.m /\ k[2] = lastOp.s /\ k[3] # lastOp.b
          /\ k \notin DOMAIN fence_tasks

C11_Original ==
    (FrameDone(lastOp) /\ ConsumedKeys(lastEvents) # {}) =>
        /\ lastEvents[1].type = "PageFlip"
        /\ \A i \in 2..Len(lastEvents) : lastEvents[i].type = "BufferConsumed"

\* C11 (amended): a completed frame iteration emits the BufferConsumed events
\* of its deferred releases first and its single PageFlip event last.
C11_ConsumedThenPageFlip ==
    (FrameDone(lastOp) /\ pc = "wait") =>
        /\ Len(lastEvents) >= 1
        /\ lastEvents[Len(lastEvents)].type = "PageFlip"
        /\ \A i \in 1..(Len(lastEvents) - 1) : lastEvents[i].type = "BufferConsumed"

\* a frame iteration with a deferred release drew a monitor and ended by PageFlip
C11_Witness ==
    /\ FrameDone(lastOp) /\ pc = "wait"
    /\ Len(lastEvents) = 2
    /\ lastEvents[1].type = "BufferConsumed"
    /\ lastEvents[2].type = "PageFlip" /\ lastEvents[1].m \in lastEvents[2].mons

\* C12: a frame iteration whose DRM swap succeeded sets the owner of every
\* queued deferred release to Client, emits exactly one BufferConsumed per queued
\* entry and none for any other slot, and leaves the queue empty; the queue
\* never holds the same key twice.
C12_DeferredDrain ==
    [][/\ NoDup(deferred_releases')
       /\ (FrameDone(lastOp') /\ pc = "frame") =>
             /\ deferred_releases' = <<>>
             /\ \A k \in SeqSet(deferred_releases) :
                    k \in DOMAIN slot_ownership' /\ slot_ownership'[k] = "Client"
             /\ \A k \in Keys :
                    CountEvents(lastEvents', "BufferConsumed", {k}) =
                        IF k \in SeqSet(deferred_releases) THEN 1 ELSE 0]_vars

\* a frame iteration drained a queue of two releases, both now owned by Client
C12_Witness ==
    /\ FrameDone(lastOp) /\ pc = "wait"
    /\ Cardinality(ConsumedKeys(lastEvents)) = 2
    /\ \A k \in ConsumedKeys(lastEvents) : slot_ownership[k] = "Client"
    /\ deferred_releases = <<>>

\* the part of a table (a function on keys or on (m, s) pairs) inside keep
Restrict(f, keep) == [x \in (DOMAIN f) \cap keep |-> f[x]]
MonitorPairs(mons) == {p \in Monitors \X Sessions : p[1] \in mons}
MonitorKeys(mons) == {k \in Keys : k[1] \in mons}
CountMonitorEvents(evs, type, m) == CountEvents(evs, type, {SlotKey(m, None, None)})
CommandKinds == {"FramebufferLink", "SetActiveSession", "SessionRemoved", "SwapBuffers",
                 "Shutdown", "ChannelClosed"}

C14_HotUnplugEviction ==
    [][(lastOp'.kind = "DrmPoll" /\ lastOp'.res = "ok") =>
          LET gone == known_monitors \ drm_monitors'
              stay == Monitors \ gone
          IN /\ \A m \in gone : CountMonitorEvents(lastEvents', "MonitorOffline", m) = 1
             /\ slots' = slots \cap MonitorKeys(stay)
             /\ slot_ownership' = Restrict(slot_ownership, MonitorKeys(stay))
             /\ monitor_state' = Restrict(monitor_state, MonitorPairs(stay))
             /\ deferred_releases' = SeqRetain(deferred_releases, MonitorKeys(stay))
             /\ fence_tasks' = Restrict(fence_tasks, MonitorKeys(stay))
             /\ orphan_tasks' = orphan_tasks]_vars

\* a monitor with an acknowledged slot went offline while another monitor keeps
\* its slots
C14_Witness ==
    /\ lastOp.kind = "DrmPoll" /\ lastOp.res = "ok"
    /\ \E i \in EventIdx :
          /\ lastEvents[i].type = "MonitorOffline"
          /\ \E k \in acked : k[1] = lastEvents[i].m
          /\ \A k \in slots : k[1] # lastEvents[i].m
    /\ slots # {}

\* C15: known_monitors changes only by its initialisation in run() and by
\* hot-plug reconciliation, never by a command or a fence event; a reconciliation
\* emits exactly one MonitorOnline per monitor present and not known and exactly
\* one MonitorOffline per known monitor that is absent, and leaves known_monitors
\* equal to the DRM monitor set; no other step emits MonitorOnline or
\* MonitorOffline (so per monitor the two alternate).
C15_KnownMonitors ==
    [][/\ known_monitors' # known_monitors => lastOp'.kind \in {"Start", "DrmPoll"}
       /\ lastOp'.kind \in CommandKinds \cup {"HandleFenceEvent", "FenceSignal"} =>
             UNCHANGED known_monitors
       /\ \A m \in Monitors :
             /\ CountMonitorEvents(lastEvents', "MonitorOnline", m) =
                   IF lastOp'.kind = "DrmPoll" /\ lastOp'.res = "ok"
                      /\ m \in drm_monitors' \ known_monitors
                   THEN 1 ELSE 0
             /\ CountMonitorEvents(lastEvents', "MonitorOffline", m) =
                   IF lastOp'.kind = "DrmPoll" /\ lastOp'.res = "ok"
                      /\ m \in known_monitors \ drm_monitors'
                   THEN 1 ELSE 0
       /\ (lastOp'.kind = "DrmPoll" /\ lastOp'.res = "ok") =>
             known_monitors' = drm_monitors']_vars

\* one reconciliation reported a monitor online and another one offline
C15_Witness ==
    /\ lastOp.kind = "DrmPoll"
    /\ \E i, j \in EventIdx :
          /\ lastEvents[i].type = "MonitorOnline" /\ lastEvents[i].m \in known_monitors
          /\ lastEvents[j].type = "MonitorOffline" /\ lastEvents[j].m \notin known_monitors

C17_Shutdown ==
    [][/\ lastOp'.kind \in {"Shutdown", "ChannelClosed"} =>
             /\ pc' = "done"
             /\ lastEvents' = <<>>
             /\ UNCHANGED <<known_monitors, monitor_state, slots, slot_ownership,
                            fence_tasks, fence_events, deferred_releases,
                            current_session>>
       /\ pc = "done" => UNCHANGED vars]_vars

\* the loop ended on a closed channel with a fence event still queued
C17_Witness ==
    /\ pc = "done" /\ lastOp.kind = "ChannelClosed"
    /\ fence_events # <<>>
    /\ budget > 0

\* C18: the first step of run() emits Started with the monitor set present and
\* sets known_monitors to that set; nothing is emitted or handled before it and
\* Started is never emitted again.
C18_Started ==
    /\ [](pc = "init" => (lastOp.kind = "init" /\ lastEvents = <<>>))
    /\ [][/\ pc = "init" =>
               /\ lastOp'.kind = "Start"
               /\ lastEvents' = <<Started(drm_monitors)>>
               /\ known_monitors' = drm_monitors
               /\ pc' = "frame"
          /\ pc # "init" =>
               /\ pc' # "init"
               /\ \A i \in 1..Len(lastEvents') : lastEvents'[i].type # "Started"]_vars

\* run() has just emitted Started for a non-empty monitor set
C18_Witness ==
    /\ lastOp.kind = "Start"
    /\ lastEvents = <<Started(known_monitors)>>
    /\ known_monitors # {} /\ known_monitors = drm_monitors

\* C19: when run() ends on a fatal error the last event emitted is FatalError.
C19_FatalErrorFinal ==
    pc = "failed" =>
        /\ lastEvents # <<>>
        /\ lastEvents[Len(lastEvents)].type = "FatalError"

\* C20: when the last frame iteration committed no connector the wait phase
\* ends: a new frame iteration starts, unless a Shutdown (or a closed channel, or
\* a fatal DRM error) ends the loop first.
C20_NoStall ==
    (pc = "wait" /\ ~committed_any) ~> (pc # "wait")

\* the 2 ms timer ended a wait phase in which nothing else happened
C20_Witness ==
    /\ lastOp.kind = "IdleTimeout"
    /\ pc = "frame" /\ ~committed_any
    /\ budget = MaxCmdsDeep

\* ------------------------------------------------------------------------
\* Properties of the wire framing
\* ------------------------------------------------------------------------

NewlineIdx(bytes) == {i \in 1..Len(bytes) : bytes[i] = NL}
SecondNewline(bytes) ==
    CHOOSE i \in NewlineIdx(bytes) : Cardinality({j \in NewlineIdx(bytes) : j < i}) = 1
RoundTripDone == call.fn = "round_trip" /\ call.pc = "done"
ReadFramedDone == call.fn = "read_framed" /\ call.pc = "done"

\* a valid frame: header without newline or trailing whitespace, payload
\* without newline
ValidFrame(f) ==
    /\ NewlineIdx(f.header) = {}
    /\ f.header = <<>> \/ f.header[Len(f.header)] \notin Whitespace
    /\ f.payload.some => NewlineIdx(f.payload.val) = {}

\* the payload line of the serialized bytes of frame f
PayloadLine(f, bytes) == SubSeq(bytes, Len(f.header) + 2, Len(bytes) - 1)

RoundTrips(f) ==
    /\ call.result = Ok(f, Len(call.bytes))
    /\ ~f.payload.some =>
          /\ PayloadLine(f, call.bytes) = FourNul
          /\ ~call.result.frame.payload.some

\* C21 as stated: parse_from_bytes(serialize(f)) returns f and the serialized
\* length for every frame f whose header has no newline and no trailing
\* whitespace and whose payload has no newline.
C21_Original ==
    RoundTripDone /\ ValidFrame(call.frame) => RoundTrips(call.frame)

\* C21 (amended): parse_from_bytes(serialize(f)) returns f and the serialized
\* length for every frame f whose header has no newline and no trailing
\* whitespace and whose payload has no newline and is not the four NUL
\* characters that stand for no payload; a frame with payload None serializes
\* its payload line as four NUL bytes and parses back to payload None.
C21_RoundTrip ==
    RoundTripDone /\ ValidFrame(call.frame) /\ call.frame.payload # Some(FourNul)
        => RoundTrips(call.frame)

C21_Witness ==
    /\ RoundTripDone
    /\ ValidFrame(call.frame)
    /\ ~call.frame.payload.some
    /\ call.frame.header # <<>>
    /\ call.frame.fds # <<>>
    /\ call.result.tag = "Ok"

\* C22: read_framed returns an error and no frame when the received bytes are
\* empty (UnexpectedEof), carry MSG_TRUNC (Truncated), hold fewer than two
\* newlines (UnexpectedEof) or hold a non-NUL byte after the second newline
\* (TrailingData), each kind being the one returned when no earlier check of
\* read_framed fails; trailing bytes that are all NUL are accepted; EAGAIN and
\* EWOULDBLOCK give WouldBlock; after EINTR the call has not returned and its
\* result is that of the next recvmsg.
C22_ReadFramedErrors ==
    call.fn = "read_framed" =>
      LET r == call.recv
          res == call.result
          received == r.errno = "OK"
          fewNewlines == Cardinality(NewlineIdx(r.bytes)) < 2
          trailing == {i \in 1..Len(r.bytes) : ~fewNewlines /\ i > SecondNewline(r.bytes)}
          trailingData == \E i \in trailing : r.bytes[i] # NUL
          text == \A i \in 1..Len(r.bytes) :
                     (fewNewlines \/ i < SecondNewline(r.bytes)) => r.bytes[i] \in Chars
      IN  /\ call.pc = "start" => res = Pending
          /\ call.pc = "done" =>
               /\ r.errno \in {"EAGAIN", "EWOULDBLOCK"} => res = Err("WouldBlock")
               /\ received /\ (r.bytes = <<>> \/ r.trunc \/ fewNewlines \/ trailingData)
                     => res.tag = "Err"
               /\ received /\ r.bytes = <<>> => res = Err("UnexpectedEof")
               /\ received /\ r.bytes # <<>> /\ r.trunc => res = Err("Truncated")
               /\ received /\ r.bytes # <<>> /\ ~r.trunc /\ ~r.ctrunc /\ fewNewlines
                     => res = Err("UnexpectedEof")
               /\ received /\ ~r.trunc /\ ~r.ctrunc /\ ~fewNewlines /\ text /\ trailingData
                     => res = Err("TrailingData")
               /\ received /\ ~r.trunc /\ ~r.ctrunc /\ ~fewNewlines /\ text /\ ~trailingData
                     => /\ res.tag = "Ok"
                        /\ res.used = SecondNewline(r.bytes)
                        /\ res.frame.header = SubSeq(r.bytes, 1, Len(res.frame.header))

C22_Witness ==
    /\ ReadFramedDone
    /\ call.eintr > 0
    /\ call.result.tag = "Ok"
    /\ call.result.used < Len(call.recv.bytes)

\* ------------------------------------------------------------------------
\* Properties of the transitions
\* ------------------------------------------------------------------------

\* a and b differ at most in the case of their ASCII letters
SameIgnoringCase(a, b) ==
    /\ Len(a) = Len(b)
    /\ \A i \in 1..Len(a) :
          \/ a[i] = b[i]
          \/ \E k \in 1..Len(Alphabet) : {a[i], b[i]} = {Alphabet[k], Capitals[k]}

\* C23: resolve_transition returns the slide-left, slide-right, slide-up,
\* slide-down or blur transition for a name that equals slideleft, slideright,
\* slideup, slidedown or blur up to the case of its (ASCII) letters, the
\* crossfade transition for every other name, and the same transition object
\* for two names that differ only in letter case.
C23_ResolveTransition ==
    call.fn = "resolve_transition" /\ call.pc = "done" =>
      LET Is(w) == SameIgnoringCase(call.name, w)
      IN  /\ Is(SLIDELEFT) => call.result = "SLIDE_LEFT_TRANSITION"
          /\ Is(SLIDERIGHT) => call.result = "SLIDE_RIGHT_TRANSITION"
          /\ Is(SLIDEUP) => call.result = "SLIDE_UP_TRANSITION"
          /\ Is(SLIDEDOWN) => call.result = "SLIDE_DOWN_TRANSITION"
          /\ Is(BLUR) => call.result = "BLUR_TRANSITION"
          /\ ~(Is(SLIDELEFT) \/ Is(SLIDERIGHT) \/ Is(SLIDEUP) \/ Is(SLIDEDOWN) \/ Is(BLUR))
                => call.result = "CROSS_FADE_TRANSITION"
          /\ SameIgnoringCase(call.name, call.other) => call.result = call.other_result

C23_Witness ==
    /\ call.fn = "resolve_transition" /\ call.pc = "done"
    /\ call.name # call.other
    /\ SameIgnoringCase(call.name, call.other)
    /\ call.name # to_ascii_lowercase(call.name)
    /\ call.result = "SLIDE_UP_TRANSITION"
    /\ call.other_result = "SLIDE_UP_TRANSITION"

\* C24: handling a Signaled event for key k = (m, s, b) promotes (current <- b,
\* pending <- none, a different previous current buffer queued for release) only
\* if pending_buffer of (m, s) equals b; otherwise surface states, ownership and
\* the deferred-release queue are unchanged.  Ownership is unchanged in both cases.
C24_FencePromotion ==
    [][lastOp'.kind = "HandleFenceEvent" =>
          LET p == <<lastOp'.m, lastOp'.s>>
              b == lastOp'.b
          IN /\ UNCHANGED <<slot_ownership, slots>>
             /\ IF p \in DOMAIN monitor_state /\ monitor_state[p].pending_buffer = b
                THEN /\ monitor_state' = [monitor_state EXCEPT
                           ![p] = [current_buffer |-> b, pending_buffer |-> None]]
                     /\ LET prev == monitor_state[p].current_buffer
                            pk == SlotKey(p[1], p[2], prev)
                        IN IF prev \in {None, b} \/ pk \in SeqSet(deferred_releases)
                           THEN UNCHANGED deferred_releases
                           ELSE deferred_releases' = Append(deferred_releases, pk)
                ELSE UNCHANGED <<monitor_state, deferred_releases>>]_vars

\* a Signaled event was ignored: its buffer was displaced while the event was
\* queued and another buffer is current
C24_Witness ==
    /\ lastOp.kind = "HandleFenceEvent" /\ lastOp.res = "ignored"
    /\ <<lastOp.m, lastOp.s>> \in DOMAIN monitor_state
    /\ monitor_state[<<lastOp.m, lastOp.s>>].current_buffer \notin {None, lastOp.b}
    /\ OpKey(lastOp) \in SeqSet(deferred_releases)

\* C25: a frame iteration draws a client texture on monitor m only if a current
\* session s is set, current_buffer(m, s) = b is set, (m, s, b) is in the slot
\* table and its owner is Shift; no slot owned by Client, no pending buffer that
\* is not current and no slot of another session is drawn.
C25_DrawOnlyShiftOwned ==
    [][(FrameDone(lastOp') /\ pc = "frame") =>
          \A k \in lastOp'.textures :
              /\ current_session # None /\ k[2] = current_session
              /\ <<k[1], k[2]>> \in DOMAIN monitor_state'
              /\ monitor_state'[<<k[1], k[2]>>].current_buffer = k[3]
              /\ k \in slots
              /\ slot_ownership[k] = "Shift"]_vars

\* a frame drew the current buffer of a monitor while the other buffer of the
\* pair, owned by Client, was left alone
C25_Witness ==
    /\ FrameDone(lastOp) /\ pc = "wait"
    /\ \E k \in lastOp.textures :
          \E k2 \in slots : /\ k2[1] = k[1] /\ k2[2] = k[2] /\ k2[3] # k[3]
                            /\ slot_ownership[k2] = "Client"
                            /\ k2 \notin lastOp.textures

\* C26 as stated: whenever pending_buffer is set it differs from current_buffer.
C26_Original ==
    \A p \in DOMAIN monitor_state :
        monitor_state[p].pending_buffer # None =>
            monitor_state[p].pending_buffer # monitor_state[p].current_buffer

\* C26 (amended): every promotion (an accepted SwapBuffers without fence, a
\* fence event that promotes) leaves pending_buffer none; pending_buffer becomes
\* equal to current_buffer only by an accepted SwapBuffers with an acquire fence
\* that names the buffer that is already current.
C26_PendingVsCurrent ==
    [][/\ ((SwapAccepted(lastOp') /\ ~lastOp'.fence)
            \/ (lastOp'.kind = "HandleFenceEvent" /\ lastOp'.res = "promoted")) =>
             monitor_state'[<<lastOp'.m, lastOp'.s>>] =
                 [current_buffer |-> lastOp'.b, pending_buffer |-> None]
       /\ \A p \in DOMAIN monitor_state' :
             (/\ monitor_state'[p].pending_buffer # None
              /\ monitor_state'[p].pending_buffer = monitor_state'[p].current_buffer) =>
                \/ p \in DOMAIN monitor_state /\ monitor_state'[p] = monitor_state[p]
                \/ /\ SwapAccepted(lastOp') /\ lastOp'.fence
                   /\ p = <<lastOp'.m, lastOp'.s>>
                   /\ p \in DOMAIN monitor_state
                   /\ monitor_state[p].current_buffer = lastOp'.b]_vars

\* a fence event promoted the pending buffer over a different current buffer
C26_Witness ==
    /\ lastOp.kind = "HandleFenceEvent" /\ lastOp.res = "promoted"
    /\ monitor_state[<<lastOp.m, lastOp.s>>] =
           [current_buffer |-> lastOp.b, pending_buffer |-> None]
    /\ \E k \in SeqSet(deferred_releases) :
          k[1] = lastOp.m /\ k[2] = lastOp.s /\ k[3] # lastOp.b

\* the fence tasks of key k that are scheduled and neither completed nor cancelled
LiveTasks(k) ==
    (IF k \in DOMAIN fence_tasks /\ fence_tasks[k] THEN 1 ELSE 0) + orphan_tasks[k]

\* C27: at every moment at most one fence task per SlotKey is live.
C27_OneLiveTask ==
    \A k \in Keys : LiveTasks(k) <= 1


\* ------------------------------------------------------------------------
\* Properties of the frame presenter
\* ------------------------------------------------------------------------

\* the snapshot of the last render call carried a transition in progress
InProgress ==
    /\ lastRender.snapshot.transition.some
    /\ lastRender.snapshot.transition.progress < ProgressOne
\* the monitors the last render call drew on
RenderedMonitors == {m \in PresenterMonitors : lastRender.monitors[m].drawn # "skipped"}

\* C28 as stated: after a render call ActiveTransition is present iff the
\* snapshot carried a transition with progress below 1.0, and in a frame that
\* clears it nothing but the active session's texture is drawn and reported.
C28_Original ==
    lastRender.called =>
      /\ active_transition.some <=> InProgress
      /\ ~InProgress =>
           \A m \in RenderedMonitors :
              /\ lastRender.monitors[m].drawn \in {"active", "clear"}
              /\ lastRender.monitors[m].presented
                   \in {<<>>, <<lastRender.snapshot.active_session_id>>}

\* C28 (amended): after a render call ActiveTransition is present iff the
\* snapshot carried a transition with progress below 1.0; in a frame that
\* clears it no transition is rendered, and each rendered monitor draws and
\* reports the active session's texture when an active texture and an active
\* session id exist, else the previous session's texture when a previous
\* texture exists and the snapshot's transition names a previous session, else
\* nothing.
C28_TransitionLifetime ==
    lastRender.called =>
      /\ active_transition.some <=> InProgress
      /\ ~InProgress =>
           \A m \in RenderedMonitors :
              LET mon == lastRender.snapshot.monitors[m]
                  out == lastRender.monitors[m]
                  active == lastRender.snapshot.active_session_id
                  previous == lastRender.snapshot.transition.previous_session_id
                  hasActive == mon.active_texture /\ active # None
                  hasPrevious == mon.previous_texture /\ previous # None
              IN  /\ hasActive => out = Drawn("active", <<active>>)
                  /\ ~hasActive /\ hasPrevious => out = Drawn("previous", <<previous>>)
                  /\ ~hasActive /\ ~hasPrevious => out = Drawn("clear", <<>>)

C28_Witness ==
    /\ lastRender.called
    /\ lastRender.before.some
    /\ lastRender.snapshot.transition.some
    /\ ~InProgress
    /\ ~active_transition.some
    /\ lastRender.monitors["m1"].drawn = "previous"

\* C29: when a render call finds an ActiveTransition and its snapshot carries
\* a transition in progress, the ActiveTransition is kept (no new one is made)
\* and its timeline advances by the progress minus the last progress if the
\* name resolves to the transition it holds; otherwise a new one is made,
\* whose timeline starts from zero and has advanced from progress 0 to the
\* snapshot's progress; in both cases last_progress is the snapshot's progress.
C29_KeptOrReset ==
    lastRender.called /\ InProgress /\ lastRender.before.some =>
      LET before == lastRender.before
          trans == lastRender.snapshot.transition
          kind == resolve_transition(trans.animation)
      IN  /\ active_transition.some
          /\ active_transition.transition = kind
          /\ active_transition.last_progress = trans.progress
          /\ kind = before.transition =>
               /\ ~lastRender.reset
               /\ active_transition.state
                    = before.state + (trans.progress - before.last_progress)
          /\ kind # before.transition =>
               /\ lastRender.reset
               /\ active_transition.state = trans.progress

C29_Witness ==
    /\ lastRender.called /\ InProgress /\ lastRender.before.some
    /\ lastRender.before.transition = active_transition.transition
    /\ lastRender.before.last_progress < active_transition.last_progress
    /\ lastRender.before.last_progress > 0
    /\ ~lastRender.reset

\* C30: a rendered monitor that does not render the transition and has an
\* active texture, with an active session id in the snapshot, draws the active
\* texture and reports the active session.
C30_ActiveFallback ==
    lastRender.called =>
      \A m \in RenderedMonitors :
         /\ lastRender.monitors[m].drawn # "transition"
         /\ lastRender.snapshot.monitors[m].active_texture
         /\ lastRender.snapshot.active_session_id # None
         => lastRender.monitors[m]
              = Drawn("active", <<lastRender.snapshot.active_session_id>>)


\* ------------------------------------------------------------------------
\* Properties of the surface cache
\* ------------------------------------------------------------------------

\* C31: after a successful ensure_surface_target(w, h, fbo) whose (w, h)
\* differs from the recorded size the cache holds exactly one surface, the one
\* of fbo, and the recorded size is (w, h); after every successful call the
\* cache holds a surface for target_fbo and every cached surface was created
\* with the recorded size.
C31_SurfaceCache ==
    render_state.last.called /\ render_state.last.ok =>
      /\ render_state.last.size_changed =>
           /\ DOMAIN render_state.surfaces_by_fbo = {render_state.last.fbo}
           /\ render_state.width = render_state.last.width
           /\ render_state.height = render_state.last.height
      /\ render_state.target_fbo = render_state.last.fbo
      /\ render_state.target_fbo \in DOMAIN render_state.surfaces_by_fbo
      /\ \A fbo \in DOMAIN render_state.surfaces_by_fbo :
            render_state.surfaces_by_fbo[fbo] = <<render_state.width, render_state.height>>

C31_Witness ==
    /\ render_state.last.called /\ render_state.last.ok
    /\ render_state.last.size_changed
    /\ Cardinality(render_state.last.before) >= 2
    /\ render_state.last.fbo \in render_state.last.before
    /\ DOMAIN render_state.surfaces_by_fbo = {render_state.last.fbo}


\* ------------------------------------------------------------------------
\* Properties of the rendering layer: fences, releases, ownership
\* ------------------------------------------------------------------------

\* C32: a buffer submitted with an acquire fence is promoted to current_buffer
\* only after that very fence has signalled: no fence event promotes a key
\* while the task that waits for the fence of its latest submission is live.
C32_OwnFenceOnly ==
    [][(lastOp'.kind = "HandleFenceEvent" /\ lastOp'.res = "promoted") =>
          ~(OpKey(lastOp') \in DOMAIN fence_tasks /\ fence_tasks[OpKey(lastOp')])]_vars


\* C33: a completed frame iteration emits no BufferConsumed for a slot that is
\* at that moment the current_buffer of its (monitor, session).
C33_CurrentNotReleased ==
    FrameDone(lastOp) =>
      \A i \in EventIdx :
         lastEvents[i].type = "BufferConsumed" =>
            ~(/\ <<lastEvents[i].m, lastEvents[i].s>> \in DOMAIN monitor_state
              /\ monitor_state[<<lastEvents[i].m, lastEvents[i].s>>].current_buffer
                   = lastEvents[i].b)


\* the slots that stay in the slot table through the step and go from Shift
\* to Client
ReturnedToClient ==
    {k \in slots \cap slots' :
        /\ k \in DOMAIN slot_ownership /\ slot_ownership[k] = "Shift"
        /\ k \in DOMAIN slot_ownership' /\ slot_ownership'[k] = "Client"}

\* the step is a frame iteration that emits BufferConsumed for slot k
ReleasedByFrame(k) == FrameDone(lastOp') /\ k \in ConsumedKeys(lastEvents')

\* C34 as stated: a slot that stays in the slot table goes from Shift to
\* Client only in process_deferred_releases, with a BufferConsumed for it.
C34_Original ==
    [][\A k \in ReturnedToClient : ReleasedByFrame(k)]_vars

\* C34 (amended): a slot that stays in the slot table goes from Shift to
\* Client only in process_deferred_releases, with a BufferConsumed for it, or
\* in a FramebufferLink that imports that slot again, which emits no event.
C34_ReturnToClient ==
    [][\A k \in ReturnedToClient :
          \/ ReleasedByFrame(k)
          \/ /\ lastOp'.kind = "FramebufferLink"
             /\ k \in ImportedKeys(lastOp'.m, lastOp'.s, lastOp'.imported)
             /\ lastEvents' = <<>>]_vars

\* the third command is a FramebufferLink that imports the current buffer of
\* its monitor and session again: the slot an accepted SwapBuffers gave to
\* Shift is owned by Client
C34_Witness ==
    /\ lastOp.kind = "FramebufferLink" /\ lastOp.res = "linked"
    /\ budget = MaxCmdsDeep - 3
    /\ <<lastOp.m, lastOp.s>> \in DOMAIN monitor_state
    /\ monitor_state[<<lastOp.m, lastOp.s>>].current_buffer \in lastOp.imported
    /\ slot_ownership[SlotKey(lastOp.m, lastOp.s,
                              monitor_state[<<lastOp.m, lastOp.s>>].current_buffer)] = "Client"


DeepKeys == {k \in Keys : k[1] \in DeepMonitors /\ k[2] \in DeepSessions}

\* C35: every release queued in deferred_releases is eventually emitted as a
\* BufferConsumed event, unless its session is removed, its monitor goes
\* offline or the renderer stops (Shutdown, closed channel, fatal error) first,
\* when DRM events or the idle timer keep ending the wait phases.
C35_ReleaseEmitted ==
    \A k \in DeepKeys :
       (k \in SeqSet(deferred_releases))
          ~> \/ k \in ConsumedKeys(lastEvents)
             \/ lastOp.kind = "SessionRemoved" /\ lastOp.s = k[2]
             \/ k[1] \notin known_monitors
             \/ pc \in {"done", "failed"}

\* a frame iteration that emitted BufferConsumed for two queued releases
C35_Witness ==
    /\ FrameDone(lastOp)
    /\ Cardinality(ConsumedKeys(lastEvents)) = 2
    /\ deferred_releases = <<>>


\* C36: after every command and fence event the fence-task table has an entry
\* for SlotKey (m, s, b) iff pending_buffer(m, s) = b, so the table holds at
\* most one task per (monitor, session).
C36_TaskIffPending ==
    /\ \A k \in Keys :
          k \in DOMAIN fence_tasks
             <=> /\ <<k[1], k[2]>> \in DOMAIN monitor_state
                 /\ monitor_state[<<k[1], k[2]>>].pending_buffer = k[3]
    /\ \A p \in Monitors \X Sessions :
          Cardinality({k \in DOMAIN fence_tasks : k[1] = p[1] /\ k[2] = p[2]}) <= 1

\* a stale fence event has been handled while another submission of the same
\* monitor and session waits for its fence
C36_Witness ==
    /\ lastOp.kind = "HandleFenceEvent" /\ lastOp.res = "ignored"
    /\ \E k \in DOMAIN fence_tasks :
          /\ k[1] = lastOp.m /\ k[2] = lastOp.s /\ k[3] # lastOp.b
          /\ fence_tasks[k]
          /\ monitor_state[<<k[1], k[2]>>].pending_buffer = k[3]

\* C37: after every sync in which the active session has a cursor on a monitor
\* with a hardware handle, the image last uploaded to the monitor is the active
\* session's current cursor image (no hardware call having failed).
C37_UploadedIsCurrent ==
    (/\ cursor_sync.used
     /\ cursor_sync.last.kind = "cursor"
     /\ cursor_sync.last.handle
     /\ ~cursor_sync.failed)
       => cursor_sync.plane_image = {cursor_sync.last.image_hash}

\* what a step of authenticate_with_token(token) has to satisfy to return a
\* session id: the token was indexed, its session was Pending and is now
\* Loading, and nothing else changed in the session table
AuthenticatedPending ==
    LET token == registry'.last.token
    IN  registry'.last.result # {} =>
          /\ token \in DOMAIN registry.token_index
          /\ registry.token_index[token] \in DOMAIN registry.sessions
          /\ registry.sessions[registry.token_index[token]] = "Pending"
          /\ registry'.last.result = {registry.token_index[token]}
          /\ registry'.sessions =
                [registry.sessions EXCEPT ![registry.token_index[token]] = "Loading"]

\* C38 as stated: a token authenticates a Pending session, and every
\* authenticate_with_token of the same token after that returns None and
\* changes no session state.
C38_Original ==
    [][(registry.used /\ registry'.last.fn = "authenticate_with_token") =>
          /\ AuthenticatedPending
          /\ registry'.last.ever =>
                /\ registry'.last.result = {}
                /\ registry'.sessions = registry.sessions]_vars

\* C38: a token authenticates a Pending session, and every
\* authenticate_with_token that follows a call with the same token returns None
\* and changes no session state, until insert_pending indexes the token again.
C38_SingleUse ==
    [][(registry.used /\ registry'.last.fn = "authenticate_with_token") =>
          /\ AuthenticatedPending
          /\ registry'.last.again =>
                /\ registry'.last.result = {}
                /\ registry'.sessions = registry.sessions]_vars

C38_Witness ==
    /\ registry.used
    /\ registry.last.fn = "authenticate_with_token"
    /\ registry.last.again
    /\ registry.last.result = {}
    /\ \E id \in DOMAIN registry.sessions : registry.sessions[id] = "Pending"
    /\ \E id \in DOMAIN registry.sessions : registry.sessions[id] = "Loading"

\* the eligible session next to id c in ascending id order, with wrap-around
Neighbour(E, c, direction) ==
    LET above == {e \in E : e > c}
        below == {e \in E : e < c}
        least(S) == CHOOSE a \in S : \A b \in S : a <= b
        greatest(S) == CHOOSE a \in S : \A b \in S : a >= b
    IN  IF direction = "Forward"
        THEN IF above # {} THEN least(above) ELSE least(E)
        ELSE IF below # {} THEN greatest(below) ELSE greatest(E)

\* cycling Forward and then Backward from an eligible current returns it
RoundTrip(current) ==
    cycle_session(registry.sessions,
                  cycle_session(registry.sessions, current, "Forward"), "Backward") = current

\* C39 as stated: None iff no session is Loading or Occupied; otherwise the
\* result is the eligible neighbour of current in ascending id order with
\* wrap-around, whatever current is; Forward then Backward is the identity on
\* an eligible current.
C39_Original ==
    (registry.used /\ registry.last.fn = "cycle_session") =>
       LET E == Eligible(registry.sessions)
           current == registry.last.ids
           result == registry.last.result
       IN  /\ result = {} <=> E = {}
           /\ E # {} =>
                /\ result \subseteq E
                /\ Cardinality(result) = 1
                /\ \A c \in current : result = {Neighbour(E, c, registry.last.direction)}
           /\ current \subseteq E => RoundTrip(current) \/ current = {}

\* C39: None iff no session is Loading or Occupied; otherwise the result is the
\* eligible neighbour, in ascending id order with wrap-around, of current when
\* current is eligible and of the least eligible id when current is absent or
\* not eligible; Forward then Backward is the identity on an eligible current.
C39_Neighbour ==
    (registry.used /\ registry.last.fn = "cycle_session") =>
       LET E == Eligible(registry.sessions)
           current == registry.last.ids
           result == registry.last.result
           from == IF current # {} /\ current \subseteq E THEN current
                   ELSE {e \in E : \A b \in E : e <= b}
       IN  /\ result = {} <=> E = {}
           /\ E # {} =>
                /\ result \subseteq E
                /\ Cardinality(result) = 1
                /\ \A c \in from : result = {Neighbour(E, c, registry.last.direction)}
           /\ current \subseteq E => RoundTrip(current) \/ current = {}

C39_Witness ==
    /\ registry.used
    /\ registry.last.fn = "cycle_session"
    /\ registry.last.direction = "Backward"
    /\ Cardinality(Eligible(registry.sessions)) = MaxSessionId
    /\ registry.last.ids = {1}
    /\ registry.last.result = {MaxSessionId}

====
